---------------------------- MODULE Spec2Model ----------------------------
(***************************************************************************)
(* A model of the BgpCreator static site generator: the build cache        *)
(* (core/build_cache.py), the asset pipeline (core/asset_manager.py), the   *)
(* image optimizer (core/optimizer.py), page emission                       *)
(* (core/page_builder.py), the site crawler (core/site_crawler.py) and the  *)
(* orchestrator (core/generator_refactored.py).                             *)
(*                                                                         *)
(* Paths and URLs are strings in the program.  Here a string is a sequence  *)
(* of tokens ("games", "/", "a", ".html"), so that the string operations    *)
(* the code performs (endswith, slicing, strip, concatenation) are          *)
(* computed and not assumed.                                                *)
(***************************************************************************)
EXTENDS Integers, Sequences, FiniteSets, TLC

VARIABLES
    src,              \* source tree: path -> file, for the paths that exist
    out,              \* output tree: path -> file, for the paths that exist
    disk_cache,       \* the content of <output>/.build_cache.json
    cache_data,       \* BuildCache.cache_data of the running process
    file_categories,  \* BuildCache.file_categories of the running process
    pc,               \* position of the running process
    ret,              \* what the last call returned / recorded about it
    run,              \* locals of the running generate_site call
    hist              \* history of the run, read by the properties only

vars == <<src, out, disk_cache, cache_data, file_categories, pc, ret, run, hist>>

(***************************************************************************)
(* Bounds of the model.                                                    *)
(***************************************************************************)
MaxTime == 2          \* modification times range over 1..MaxTime


(***************************************************************************)
(* Strings as token sequences.                                             *)
(***************************************************************************)
EndsWith(s, suffix) ==
    /\ Len(s) >= Len(suffix)
    /\ SubSeq(s, Len(s) - Len(suffix) + 1, Len(s)) = suffix

StartsWith(s, prefix) ==
    /\ Len(s) >= Len(prefix)
    /\ SubSeq(s, 1, Len(prefix)) = prefix

DropLast(s, n) == SubSeq(s, 1, Len(s) - n)

DropFirst(s, n) == SubSeq(s, n + 1, Len(s))

Range(s) == {s[i] : i \in DOMAIN s}

\* the elements of the sequence s that lie in keep, in order
FilterSeq(s, keep) == SelectSeq(s, LAMBDA x : x \in keep)

\* seqs[lo] \o ... \o seqs[hi]
RECURSIVE Flatten(_, _, _)
Flatten(seqs, lo, hi) ==
    IF lo > hi THEN <<>>
    ELSE IF lo = hi THEN seqs[lo]
    ELSE Flatten(seqs, lo, (lo + hi) \div 2) \o Flatten(seqs, (lo + hi) \div 2 + 1, hi)

\* dict.get(key, default)
Get(d, key, default) == IF key \in DOMAIN d THEN d[key] ELSE default

\* a dict with no key: Python's {} (falsy)
EmptyDict == <<>>

\* d with d[key] = val
Put(d, key, val) == (key :> val) @@ d

\* d without key
Del(d, key) == [k \in (DOMAIN d) \ {key} |-> d[k]]

(***************************************************************************)
(* Source paths.  The source tree holds the content directory, the static  *)
(* directory, the template directory and the site settings module.         *)
(***************************************************************************)
ContentDir == <<"content_html">>
StaticDir == <<"static">>

GameA == <<"content_html", "/", "games", "/", "a", ".html">>
GameB == <<"content_html", "/", "games", "/", "b", ".html">>
MainCss == <<"static", "/", "css", "/", "main", ".css">>
RootCss == <<"static", "/", "main", ".css">>
GameLogoSrc == <<"static", "/", "gamelogo", ".webp">>
HeroSrc == <<"static", "/", "hero-image", ".webp">>
FaviconSrc == <<"static", "/", "favicon", ".ico">>
ImgPic == <<"static", "/", "img", "/", "pic", ".png">>
ImgSecrets == <<"static", "/", "img", "/", "secrets", ".json">>
ErrorTemplate == <<"templates", "/", "error", ".html">>
IndexTemplate == <<"templates", "/", "index", ".html">>
PageTemplate == <<"templates", "/", "page", ".html">>
SettingsFile == <<"settings", ".py">>

\* every source path of the model, in the order a directory walk lists them
AllSourcePaths ==
    <<GameA, GameB, FaviconSrc, GameLogoSrc, HeroSrc, ImgPic, ImgSecrets, MainCss, RootCss,
      <<"static", "/", "secrets", ".json">>, ErrorTemplate, IndexTemplate, PageTemplate,
      SettingsFile>>

(***************************************************************************)
(* Files.  A file has a modification time, a content and a permission;     *)
(* its size is a function of its content.  Contents c1 and c2 have the     *)
(* same size, c3 a different one.                                          *)
(***************************************************************************)

SizeOf(content) == IF content = "c3" THEN 2 ELSE 1

File(mtime, content, readable) ==
    [mtime |-> mtime, content |-> content, readable |-> readable]

(***************************************************************************)
(* BuildCache (core/build_cache.py)                                        *)
(***************************************************************************)
\* file_categories as BuildCache.__init__ sets it
InitialCategories ==
    [c \in {"content", "static", "templates", "config", "processed_images"} |-> <<>>]

\* _get_file_hash: the SHA-256 of the content (injective on the contents of
\* the model: it separates contents of equal size), "" when the read fails.
\* A file's digest is the pair <<size, content>>; "" is the empty sequence.
_get_file_hash(tree, path) ==
    IF tree[path].readable
    THEN <<SizeOf(tree[path].content), tree[path].content>>
    ELSE <<>>

\* _get_file_info: called for existing paths only; os.stat succeeds on them
_get_file_info(tree, path) ==
    [mtime |-> tree[path].mtime,
     size |-> SizeOf(tree[path].content),
     hash |-> _get_file_hash(tree, path)]

\* what cached_files.get(path, {}) .get(field, default) reads
CachedInfo(cache, path) ==
    LET cached_files == Get(cache, "files", EmptyDict)
    IN  IF path \in DOMAIN cached_files
        THEN [mtime |-> cached_files[path].mtime,
              size |-> cached_files[path].size,
              hash |-> cached_files[path].hash]
        ELSE [mtime |-> 0, size |-> 0, hash |-> <<>>]

\* the comparison of get_changed_files for one existing file
InfoDiffersMtimeBlind(current_info, cached_info) ==
    \/ current_info.hash # cached_info.hash
    \/ current_info.size # cached_info.size

InfoDiffersHashBlind(current_info, cached_info) ==
    \/ current_info.mtime # cached_info.mtime
    \/ current_info.size # cached_info.size

InfoDiffers(current_info, cached_info) ==
    \/ current_info.mtime # cached_info.mtime
    \/ current_info.hash # cached_info.hash
    \/ current_info.size # cached_info.size

\* get_changed_files: the set of changed paths among file_paths (a list)
get_changed_files(tree, cache, file_paths) ==
    LET cached_files == Get(cache, "files", EmptyDict)
    IN  {p \in Range(file_paths) :
            IF p \notin DOMAIN tree
            THEN p \in DOMAIN cached_files
            ELSE InfoDiffers(_get_file_info(tree, p), CachedInfo(cache, p))}

\* an absent category argument; an absent file_paths argument is the empty
\* list, which `if file_paths:` treats alike
None == "None"

ConcatAll(cats, order) == Flatten([i \in DOMAIN order |-> cats[order[i]]], 1, Len(order))

files_to_check(cats, file_paths, category) ==
    IF file_paths # <<>> THEN file_paths
    ELSE IF category # None THEN Get(cats, category, <<>>)
    ELSE ConcatAll(cats, <<"content", "static", "templates", "config", "processed_images">>)

has_changes_no_force(tree, cache, cats, file_paths, category, force) ==
    IF DOMAIN cache = {} THEN TRUE
    ELSE get_changed_files(tree, cache, files_to_check(cats, file_paths, category)) # {}

has_changes(tree, cache, cats, file_paths, category, force) ==
    IF force THEN TRUE
    ELSE IF DOMAIN cache = {} THEN TRUE
    ELSE get_changed_files(tree, cache, files_to_check(cats, file_paths, category)) # {}

\* update_file_cache: the fingerprint of every listed path that exists is
\* stored.  The field `seen` is history: the content the fingerprint was
\* taken from; the program neither stores nor reads it.
\* (each iteration of the loop is evaluated before the next one starts)
RECURSIVE StoreInfos(_, _, _)
StoreInfos(files, tree, file_paths) ==
    IF file_paths = <<>> THEN files
    ELSE LET p == Head(file_paths)
             info == _get_file_info(tree, p)
         IN  CHOOSE done \in
                 {StoreInfos(stored, tree, Tail(file_paths)) :
                     stored \in {IF p \in DOMAIN tree
                                 THEN Put(files, p, [mtime |-> info.mtime, size |-> info.size,
                                                     hash |-> info.hash,
                                                     seen |-> tree[p].content])
                                 ELSE files}} : TRUE

update_file_cache(tree, cache, file_paths) ==
    Put(cache, "files", StoreInfos(Get(cache, "files", EmptyDict), tree, file_paths))

\* the cache file: absent, text that is not valid JSON ("corrupt"), bytes
\* that are not UTF-8 text ("undecodable"), or a saved dict
AbsentFile == [state |-> "absent", data |-> EmptyDict]
ValidFile(d) == [state |-> "valid", data |-> d]

\* _load_cache raises: the file is opened with encoding='utf-8', and the
\* UnicodeDecodeError json.load meets on bytes that are not UTF-8 is neither
\* a json.JSONDecodeError nor an OSError
LoadRaises(disk) == disk.state = "undecodable"

\* _load_cache, when it returns
_load_cache(disk) == IF disk.state = "valid" THEN disk.data ELSE EmptyDict

\* save_cache: what it leaves in cache_data and in the cache file, cache_data
\* with the build timestamp
save_cache(cache) == Put(cache, "last_build", "current_build_time")

\* glob patterns of _setup_file_tracking, as sets of extensions
ContentPatterns == {".html"}
StaticPatterns == {".css", ".js", ".png", ".jpg", ".jpeg", ".webp", ".svg", ".ico"}

\* scan_directory: the files of the tree under directory whose name matches
\* one of the patterns, in walk order
scan_directory(tree, directory, patterns) ==
    FilterSeq(AllSourcePaths,
              {p \in DOMAIN tree :
                  StartsWith(p, directory \o <<"/">>) /\ p[Len(p)] \in patterns})

(***************************************************************************)
(* SpecCache: one BuildCache object under any sequence of calls, while the  *)
(* source files are created, rewritten, touched, made unreadable and        *)
(* deleted.                                                                 *)
(***************************************************************************)
MaxTracked == 1       \* a category is scanned again while it lists fewer paths

NoCall == [op |-> "none", file_paths |-> <<>>, category |-> None,
           force |-> FALSE, result |-> FALSE]

\* the files the environment of SpecCache writes, and the states it gives them
CacheSpecPaths == {GameA, MainCss}

EnvFiles(p) ==
    IF p = GameA
    THEN {File(t, c, r) : t \in 1..MaxTime, c \in {"c1", "c2", "c3"}, r \in BOOLEAN}
    ELSE {File(1, "c1", TRUE)}

\* the cache file the process finds: none, an unparsable one, or the one a
\* build that tracked no file has saved
InitCache ==
    /\ src = EmptyDict
    /\ out = EmptyDict
    /\ disk_cache \in {AbsentFile, [state |-> "corrupt", data |-> EmptyDict],
                       ValidFile(save_cache(EmptyDict))}
    /\ cache_data = _load_cache(disk_cache)
    /\ file_categories = InitialCategories
    /\ pc = "running"
    /\ ret = NoCall
    /\ run = [force |-> FALSE]
    /\ hist = [found |-> disk_cache.state]

\* the environment creates or rewrites a file (any content, any mtime: an
\* editor, a checkout that preserves mtimes, touch, chmod)
Env_Write(p, f) ==
    /\ src' = Put(src, p, f)
    /\ ret' = NoCall
    /\ UNCHANGED <<out, disk_cache, cache_data, file_categories, pc, run, hist>>

\* the environment deletes a file
Env_Remove(p) ==
    /\ p \in DOMAIN src
    /\ src' = Del(src, p)
    /\ ret' = NoCall
    /\ UNCHANGED <<out, disk_cache, cache_data, file_categories, pc, run, hist>>

\* the environment damages the cache file (a truncated write, a disk error)
Env_CacheFile(state) ==
    /\ disk_cache' = [state |-> state, data |-> EmptyDict]
    /\ ret' = NoCall
    /\ UNCHANGED <<src, out, cache_data, file_categories, pc, run, hist>>

\* BuildCache(cache_file): a new process loads the cache file; the
\* constructor raises when _load_cache does
BC_New ==
    /\ pc' = IF LoadRaises(disk_cache) THEN "raised" ELSE "running"
    /\ cache_data' = _load_cache(disk_cache)
    /\ file_categories' = InitialCategories
    /\ ret' = [NoCall EXCEPT !.op = "BuildCache"]
    /\ hist' = [found |-> disk_cache.state]
    /\ UNCHANGED <<src, out, disk_cache, run>>

\* scan_directory(directory, patterns, category)
BC_Scan(directory, patterns, category) ==
    /\ pc = "running"
    /\ Len(file_categories[category]) < MaxTracked
    /\ file_categories' =
           [file_categories EXCEPT
               ![category] = @ \o scan_directory(src, directory, patterns)]
    /\ ret' = NoCall
    /\ UNCHANGED <<src, out, disk_cache, cache_data, pc, run, hist>>

\* has_changes(file_paths, category, force)
BC_HasChanges(file_paths, category, force) ==
    /\ pc = "running"
    /\ ret' = [op |-> "has_changes", file_paths |-> file_paths,
               category |-> category, force |-> force,
               result |-> has_changes(src, cache_data, file_categories,
                                      file_paths, category, force)]
    /\ UNCHANGED <<src, out, disk_cache, cache_data, file_categories, pc, run, hist>>

\* update_file_cache(file_categories[category])
BC_Update(category) ==
    /\ pc = "running"
    /\ cache_data' = update_file_cache(src, cache_data, file_categories[category])
    /\ ret' = NoCall
    /\ UNCHANGED <<src, out, disk_cache, file_categories, pc, run, hist>>

NextCache ==
    \/ \E p \in CacheSpecPaths : \E f \in EnvFiles(p) : Env_Write(p, f)
    \/ \E p \in CacheSpecPaths : Env_Remove(p)
    \/ \E state \in {"corrupt", "undecodable"} : Env_CacheFile(state)
    \/ BC_New
    \/ BC_Scan(ContentDir, ContentPatterns, "content")
    \/ BC_Scan(StaticDir, StaticPatterns, "static")
    \/ \E fp \in {<<>>, <<GameA>>} :
         \E c \in {None, "content", "static"} :
           \E force \in BOOLEAN : BC_HasChanges(fp, c, force)
    \/ BC_Update("content")
    \/ BC_Update("static")

SpecCache == InitCache /\ [][NextCache]_vars

(***************************************************************************)
(* Change-detection claims, under SpecCache.                               *)
(***************************************************************************)
CalledHasChanges == ret.op = "has_changes"

\* the scope of the recorded call, as the contract words it
TrackedEverywhere == UNION {Range(file_categories[c]) : c \in DOMAIN file_categories}

ContractScope ==
    IF ret.file_paths # <<>> THEN Range(ret.file_paths)
    ELSE IF ret.category # None THEN Range(file_categories[ret.category])
    ELSE TrackedEverywhere

HasEntry(p) == p \in DOMAIN Get(cache_data, "files", EmptyDict)

Entry(p) == cache_data["files"][p]

\* "changed", as the contract words it
ContractChanged(p) ==
    \/ p \notin DOMAIN src /\ HasEntry(p)
    \/ /\ p \in DOMAIN src
       /\ \/ ~HasEntry(p)
          \/ src[p].mtime # Entry(p).mtime
          \/ SizeOf(src[p].content) # Entry(p).size
          \/ _get_file_hash(src, p) # Entry(p).hash

\* C9: has_changes returns true when force is set, true when the cache is
\* empty, and otherwise true exactly when some file of the requested scope
\* (explicit paths, else the category's files, else every tracked file) is
\* changed: deleted with a cache entry, or present with an mtime, a size or a
\* hash that differs from the cached fingerprint.
C9_HasChangesContract ==
    CalledHasChanges =>
        ret.result = (\/ ret.force
                      \/ DOMAIN cache_data = {}
                      \/ \E p \in ContractScope : ContractChanged(p))

\* C9 witness: a call without force on a non-empty cache, over a category
\* that lists a fingerprinted file, answered "no change"
C9_Witness ==
    /\ CalledHasChanges
    /\ ~ret.force
    /\ ret.file_paths = <<>>
    /\ ret.category = "content"
    /\ GameA \in Range(file_categories["content"])
    /\ HasEntry(GameA)
    /\ ret.result = FALSE

\* a category check on a non-empty cache in which p is tracked, present and
\* fingerprinted
CategoryCheckOf(p) ==
    /\ CalledHasChanges
    /\ ~ret.force
    /\ DOMAIN cache_data # {}
    /\ ret.file_paths = <<>>
    /\ ret.category # None
    /\ p \in Range(file_categories[ret.category])
    /\ p \in DOMAIN src
    /\ HasEntry(p)

\* only the mtime of p differs from its fingerprint
OnlyMtimeDiffers(p) ==
    /\ src[p].mtime # Entry(p).mtime
    /\ SizeOf(src[p].content) = Entry(p).size
    /\ _get_file_hash(src, p) = Entry(p).hash

NoOtherChange(p) ==
    \A q \in Range(file_categories[ret.category]) \ {p} : ~ContractChanged(q)

\* C10 as stated: a fingerprinted file whose hash and size equal the cached
\* ones but whose mtime differs is not reported as changed, and has_changes
\* for its category returns false when no other file of the scope changed.
C10_TouchIsIgnored ==
    \A p \in CacheSpecPaths :
        (CategoryCheckOf(p) /\ OnlyMtimeDiffers(p) /\ NoOtherChange(p))
            => /\ ret.result = FALSE
               /\ p \notin get_changed_files(src, cache_data,
                                             file_categories[ret.category])

\* C10 amended: a fingerprinted file whose hash and size equal the cached
\* ones but whose mtime differs is reported as changed, and has_changes for
\* its category returns true.
C10_TouchIsAChange ==
    \A p \in CacheSpecPaths :
        (CategoryCheckOf(p) /\ OnlyMtimeDiffers(p))
            => /\ ret.result = TRUE
               /\ p \in get_changed_files(src, cache_data,
                                          file_categories[ret.category])

\* C10 witness: the category check of a touched file, nothing else changed
C10_Witness ==
    /\ CategoryCheckOf(GameA)
    /\ OnlyMtimeDiffers(GameA)
    /\ NoOtherChange(GameA)
    /\ src[GameA].readable

\* the content of p is not the content its fingerprint was taken from
ContentChangedSinceFingerprint(p) == src[p].content # Entry(p).seen

\* C4: for a file tracked in a category and fingerprinted before, a change of
\* its content makes has_changes(category) return true, even when mtime and
\* size are unchanged.
C4_ContentChangeDetected ==
    \A p \in CacheSpecPaths :
        (CategoryCheckOf(p) /\ ContentChangedSinceFingerprint(p))
            => ret.result = TRUE

\* C4 for the files whose content could be read at both times: the hash
\* alone detects the change.
C4_ReadableContentChangeDetected ==
    \A p \in CacheSpecPaths :
        (/\ CategoryCheckOf(p)
         /\ ContentChangedSinceFingerprint(p)
         /\ src[p].readable
         /\ Entry(p).hash # <<>>)
            => ret.result = TRUE

(***************************************************************************)
(* Output paths.  Every output path starts with the output directory.      *)
(***************************************************************************)
OutputDir == <<"output">>

\* os.path.join(directory, rel)
Join(directory, rel) == directory \o <<"/">> \o rel

\* os.path.basename: a file name is a stem token and an extension token
Basename(path) == SubSeq(path, Len(path) - 1, Len(path))

\* os.path.relpath(path, start) for a path under start
RelPath(path, start) == DropFirst(path, Len(start) + 1)

\* path lies under directory
Under(path, directory) == StartsWith(path, directory \o <<"/">>)

AssetsDir == Join(OutputDir, <<"assets">>)
ImagesDir == Join(AssetsDir, <<"images">>)

\* SEO_FILENAME of the settings, and the logo name derived from the site name
SeoFilename == "game"
LogoFilename == "site-logo"

OutHeroSeo == Join(ImagesDir, <<"seo", "/", SeoFilename, ".webp">>)
OutIcon32 == Join(AssetsDir, <<"icons", "/", "favicon-32x32", ".png">>)
OutFaviconRoot == Join(OutputDir, <<"favicon", ".ico">>)
OutLogoRoot == Join(OutputDir, <<LogoFilename, ".webp">>)

\* an output file: its mtime and its content, a sequence of tokens
OutFile(mtime, content) == [mtime |-> mtime, content |-> content]

\* shutil.copy2: the content and the mtime of the source
CopyOf(f) == OutFile(f.mtime, <<f.content>>)

MaxOf(S) == IF S = {} THEN 1 ELSE CHOOSE x \in S : \A y \in S : y <= x

\* the time a write stamps on a file: no earlier than any mtime on record
Now(tree, outtree) ==
    MaxOf({tree[p].mtime : p \in DOMAIN tree} \cup {outtree[p].mtime : p \in DOMAIN outtree})

(***************************************************************************)
(* The processed-image registry (core/build_cache.py)                      *)
(***************************************************************************)
register_processed_image(cache, path) ==
    LET registered == Get(cache, "processed_images", <<>>)
    IN  IF path \in Range(registered)
        THEN Put(cache, "processed_images", registered)
        ELSE Put(cache, "processed_images", Append(registered, path))

(***************************************************************************)
(* ImageOptimizer (core/optimizer.py).  Each task maps the source tree,    *)
(* the output tree and the cache to their values when it returns, with the *)
(* set of output paths it wrote.                                           *)
(***************************************************************************)
_needs_processing(tree, outtree, source_path, target_path, force) ==
    \/ force
    \/ target_path \notin DOMAIN outtree
    \/ tree[source_path].mtime > outtree[target_path].mtime

Disks(tree, outtree, cache, wrote) ==
    [tree |-> tree, outtree |-> outtree, cache |-> cache, wrote |-> wrote]

\* _optimize_hero_images
_optimize_hero_images(tree, outtree, cache, force) ==
    IF HeroSrc \notin DOMAIN tree THEN Disks(tree, outtree, cache, {})
    ELSE IF ~_needs_processing(tree, outtree, HeroSrc, OutHeroSeo, force)
    THEN Disks(tree, outtree, cache, {})
    ELSE IF ~tree[HeroSrc].readable THEN Disks(tree, outtree, cache, {})
    ELSE LET saved == Put(tree, HeroSrc,
                          File(Now(tree, outtree),
                               IF tree[HeroSrc].content = "c1" THEN "c2"
                               ELSE tree[HeroSrc].content,
                               TRUE))
         IN  Disks(saved,
                   Put(outtree, OutHeroSeo, CopyOf(saved[HeroSrc])),
                   register_processed_image(cache, HeroSrc),
                   {OutHeroSeo})

\* _optimize_favicon, and _create_default_favicon when there is no favicon
_optimize_favicon(tree, outtree, cache, force) ==
    LET now == Now(tree, outtree)
    IN  IF FaviconSrc \notin DOMAIN tree
        THEN Disks(tree,
                   Put(Put(outtree, OutIcon32, OutFile(now, <<"default-icon">>)),
                       OutFaviconRoot, OutFile(now, <<"default-ico">>)),
                   cache, {OutIcon32, OutFaviconRoot})
        ELSE IF ~_needs_processing(tree, outtree, FaviconSrc, OutIcon32, force)
        THEN Disks(tree, outtree, cache, {})
        ELSE IF ~tree[FaviconSrc].readable THEN Disks(tree, outtree, cache, {})
        ELSE Disks(tree,
                   Put(Put(outtree, OutIcon32,
                           OutFile(now, <<"icon32x32", tree[FaviconSrc].content>>)),
                       OutFaviconRoot, CopyOf(tree[FaviconSrc])),
                   register_processed_image(cache, FaviconSrc),
                   {OutIcon32, OutFaviconRoot})

\* _optimize_game_logo
_optimize_game_logo(tree, outtree, cache, force) ==
    IF GameLogoSrc \notin DOMAIN tree THEN Disks(tree, outtree, cache, {})
    ELSE IF ~_needs_processing(tree, outtree, GameLogoSrc, OutLogoRoot, force)
    THEN Disks(tree, outtree, cache, {})
    ELSE IF ~tree[GameLogoSrc].readable THEN Disks(tree, outtree, cache, {})
    ELSE LET resized == OutFile(Now(tree, outtree),
                                <<"logo64x64", tree[GameLogoSrc].content>>)
             logo_seo == Join(ImagesDir, <<"logos", "/", LogoFilename, ".webp">>)
             logo_std == Join(ImagesDir, <<"gamelogo", ".webp">>)
         IN  Disks(tree,
                   Put(Put(Put(outtree, logo_seo, resized), OutLogoRoot, resized),
                       logo_std, resized),
                   register_processed_image(cache, GameLogoSrc),
                   {logo_seo, OutLogoRoot, logo_std})

(***************************************************************************)
(* AssetManager (core/asset_manager.py)                                    *)
(***************************************************************************)
_is_image_file(file_path) ==
    file_path[Len(file_path)] \in {".png", ".jpg", ".jpeg", ".webp", ".svg", ".gif", ".ico"}

\* an asset manager that never consults the registry
registry_ignored(cache, file_path) == FALSE

\* _is_image_already_processed, through BuildCache.is_image_processed
_is_image_already_processed(cache, file_path) ==
    IF "processed_images" \notin DOMAIN cache THEN FALSE
    ELSE file_path \in Range(cache["processed_images"])

_needs_copy(tree, outtree, source, dest) ==
    \/ dest \notin DOMAIN outtree
    \/ tree[source].mtime > outtree[dest].mtime

\* a glob pattern is <<"*", extension>> or a file name <<stem, extension>>
GlobMatches(file_path, pattern) ==
    IF pattern[1] = "*" THEN file_path[Len(file_path)] = pattern[2]
    ELSE Basename(file_path) = pattern

\* the target path _collect_file_tasks computes
TargetPath(rel_path, target_dir, preserve_path) ==
    IF preserve_path
    THEN IF StartsWith(rel_path, <<"css", "/">>) \/ StartsWith(rel_path, <<"js", "/">>)
         THEN IF EndsWith(target_dir, <<"/", "assets", "/", rel_path[1]>>)
              THEN Join(target_dir, DropFirst(rel_path, 2))
              ELSE Join(target_dir, rel_path)
         ELSE Join(target_dir, rel_path)
    ELSE Join(target_dir, Basename(rel_path))

\* the loop of _collect_file_tasks over the files the glob returned
TasksOf(files, tree, outtree, cache, target_dir, preserve_path, force) ==
    LET target_path(file_path) ==
            TargetPath(RelPath(file_path, StaticDir), target_dir, preserve_path)
        queued == SelectSeq(files, LAMBDA file_path :
                      /\ ~(/\ _is_image_file(file_path)
                           /\ _is_image_already_processed(cache, file_path))
                      /\ \/ force
                         \/ _needs_copy(tree, outtree, file_path, target_path(file_path)))
    IN  [i \in DOMAIN queued |->
            [source |-> queued[i], target |-> target_path(queued[i]), force |-> force]]

_collect_file_tasks(tree, outtree, cache, pattern, target_dir, preserve_path, force) ==
    TasksOf(FilterSeq(AllSourcePaths,
                      {p \in DOMAIN tree : Under(p, StaticDir) /\ GlobMatches(p, pattern)}),
            tree, outtree, cache, target_dir, preserve_path, force)

PatternCall(pattern, target_dir, preserve_path) ==
    [pattern |-> pattern, target_dir |-> target_dir, preserve_path |-> preserve_path]

\* asset_mappings and root_files_allowlist, in the order copy_static_files
\* walks them
asset_mappings ==
    << PatternCall(<<"*", ".css">>, Join(AssetsDir, <<"css">>), TRUE),
       PatternCall(<<"*", ".js">>, Join(AssetsDir, <<"js">>), TRUE),
       PatternCall(<<"*", ".png">>, ImagesDir, TRUE),
       PatternCall(<<"*", ".jpg">>, ImagesDir, TRUE),
       PatternCall(<<"*", ".jpeg">>, ImagesDir, TRUE),
       PatternCall(<<"*", ".webp">>, ImagesDir, TRUE),
       PatternCall(<<"*", ".svg">>, ImagesDir, TRUE),
       PatternCall(<<"*", ".gif">>, ImagesDir, TRUE),
       PatternCall(<<"*", ".ico">>, ImagesDir, TRUE),
       PatternCall(<<"*", ".woff">>, Join(AssetsDir, <<"fonts">>), TRUE),
       PatternCall(<<"*", ".woff2">>, Join(AssetsDir, <<"fonts">>), TRUE),
       PatternCall(<<"*", ".ttf">>, Join(AssetsDir, <<"fonts">>), TRUE),
       PatternCall(<<"*", ".otf">>, Join(AssetsDir, <<"fonts">>), TRUE),
       PatternCall(<<"*", ".eot">>, Join(AssetsDir, <<"fonts">>), TRUE) >>

root_files_allowlist ==
    << PatternCall(<<"favicon", ".ico">>, OutputDir, FALSE),
       PatternCall(<<"site", ".webmanifest">>, OutputDir, FALSE),
       PatternCall(<<"manifest", ".json">>, OutputDir, FALSE),
       PatternCall(<<"app", ".webmanifest">>, OutputDir, FALSE),
       PatternCall(<<"sw", ".js">>, OutputDir, FALSE),
       PatternCall(<<"logo", ".png">>, OutputDir, FALSE),
       PatternCall(<<"robots", ".txt">>, OutputDir, FALSE),
       PatternCall(<<"sitemap", ".xml">>, OutputDir, FALSE) >>

\* copy_tasks: the tasks of every pattern call, collected before any copy
CollectAll(calls, tree, outtree, cache, force) ==
    Flatten([i \in DOMAIN calls |->
                _collect_file_tasks(tree, outtree, cache, calls[i].pattern,
                                    calls[i].target_dir, calls[i].preserve_path, force)],
            1, Len(calls))

\* _copy_single_file: its result
CopyResult(tree, outtree, task) ==
    IF ~task.force /\ ~_needs_copy(tree, outtree, task.source, task.target) THEN "skipped"
    ELSE IF ~tree[task.source].readable THEN "error"
    ELSE "copied"

\* _copy_single_file: the output tree it leaves
_copy_single_file(tree, outtree, task) ==
    IF CopyResult(tree, outtree, task) = "copied"
    THEN Put(outtree, task.target, CopyOf(tree[task.source]))
    ELSE outtree

\* _execute_parallel_copy, the tasks taken in the order they were queued
RECURSIVE _execute_parallel_copy(_, _, _)
_execute_parallel_copy(tree, outtree, copy_tasks) ==
    IF copy_tasks = <<>> THEN outtree
    ELSE CHOOSE done \in
             {_execute_parallel_copy(tree, copied, Tail(copy_tasks)) :
                 copied \in {_copy_single_file(tree, outtree, Head(copy_tasks))}} : TRUE

\* the sources _execute_parallel_copy copied
CopiedSources(tree, outtree, copy_tasks) ==
    {copy_tasks[i].source : i \in
        {j \in DOMAIN copy_tasks :
            CopyResult(tree, _execute_parallel_copy(tree, outtree, SubSeq(copy_tasks, 1, j - 1)),
                       copy_tasks[j]) = "copied"}}

\* a directory exists when a file lies under it
DirExists(tree, directory) == \E p \in DOMAIN tree : Under(p, directory)

\* _copy_directory: shutil.rmtree(dest_dir), then shutil.copytree
_copy_directory(tree, outtree, src_dir, dest_dir) ==
    LET copied == {p \in DOMAIN tree : Under(p, src_dir) /\ tree[p].readable}
        kept == {q \in DOMAIN outtree : ~Under(q, dest_dir)}
        target(p) == Join(dest_dir, RelPath(p, src_dir))
    IN  [q \in kept \cup {target(p) : p \in copied} |->
            IF \E p \in copied : target(p) = q
            THEN CopyOf(tree[CHOOSE p \in copied : target(p) = q])
            ELSE outtree[q]]

ImgDir == Join(StaticDir, <<"img">>)

\* copy_static_files: the tasks it queued, the sources it copied and the
\* output tree it leaves
copy_static_files(tree, outtree, cache, force) ==
    LET copy_tasks == CollectAll(asset_mappings \o root_files_allowlist,
                                 tree, outtree, cache, force)
        after_tasks == _execute_parallel_copy(tree, outtree, copy_tasks)
        img_copied == IF DirExists(tree, ImgDir)
                      THEN {p \in DOMAIN tree : Under(p, ImgDir) /\ tree[p].readable}
                      ELSE {}
    IN  [queued |-> {copy_tasks[i].source : i \in DOMAIN copy_tasks},
         copied |-> CopiedSources(tree, outtree, copy_tasks) \cup img_copied,
         outtree |-> IF DirExists(tree, ImgDir)
                     THEN _copy_directory(tree, after_tasks, ImgDir, ImagesDir)
                     ELSE after_tasks]

(***************************************************************************)
(* SiteGenerator.__init__ and the static stage of generate_site             *)
(* (core/generator_refactored.py)                                           *)
(***************************************************************************)
\* _setup_file_tracking on a new BuildCache
_setup_file_tracking(tree) ==
    [InitialCategories EXCEPT
        !["content"] = scan_directory(tree, ContentDir, ContentPatterns),
        !["static"] = scan_directory(tree, StaticDir, StaticPatterns),
        !["templates"] = scan_directory(tree, <<"templates">>, {".html"}),
        !["config"] = <<SettingsFile>>]


(***************************************************************************)
(* SpecAssets: builds restricted to their static stage (image optimizer,   *)
(* then asset copy), while the static directory is edited between builds.  *)
(***************************************************************************)
AssetSpecPaths == {GameLogoSrc, HeroSrc, ImgPic, ImgSecrets}

ParallelImageTasks == {"hero_images", "favicon"}

\* the history of a build: what the optimizer wrote and what the copy queued
\* and copied
NoAssetHistory == [optimized |-> <<>>, queued |-> {}, copied |-> {}]

InitAssets ==
    /\ src = EmptyDict
    /\ out = EmptyDict
    /\ disk_cache = AbsentFile
    /\ cache_data = EmptyDict
    /\ file_categories = InitialCategories
    /\ pc = "idle"
    /\ ret = NoCall
    /\ run = [force |-> FALSE, pending |-> {}]
    /\ hist = NoAssetHistory

\* SiteGenerator(force), then generate_site up to the static check
A_Begin(force) ==
    /\ pc = "idle"
    /\ LET loaded == _load_cache(disk_cache)
           tracked == _setup_file_tracking(src)
           static_changed == has_changes(src, loaded, tracked, <<>>, "static", force)
       IN  /\ cache_data' = loaded
           /\ file_categories' = tracked
           /\ ret' = [op |-> "has_changes", file_paths |-> <<>>, category |-> "static",
                      force |-> force, result |-> static_changed]
           /\ pc' = IF static_changed THEN "optimize" ELSE "save"
           /\ run' = [force |-> force,
                      pending |-> IF static_changed THEN ParallelImageTasks ELSE {}]
    /\ hist' = NoAssetHistory
    /\ UNCHANGED <<src, out, disk_cache>>

\* the output paths in wrote, with the content they now hold, added to optimized
Optimized(optimized, outtree, wrote) ==
    [p \in (DOMAIN optimized) \cup wrote |->
        IF p \in wrote THEN outtree[p].content ELSE optimized[p]]

\* one parallel task of optimize_all_images
A_ImageTask(name) ==
    /\ pc = "optimize"
    /\ name \in run.pending
    /\ LET after == IF name = "hero_images"
                    THEN _optimize_hero_images(src, out, cache_data, run.force)
                    ELSE _optimize_favicon(src, out, cache_data, run.force)
       IN  /\ src' = after.tree
           /\ out' = after.outtree
           /\ cache_data' = after.cache
           /\ hist' = [hist EXCEPT !.optimized = Optimized(@, after.outtree, after.wrote)]
    /\ run' = [run EXCEPT !.pending = @ \ {name}]
    /\ UNCHANGED <<disk_cache, file_categories, pc, ret>>

\* the game logo, after the parallel tasks
A_GameLogo ==
    /\ pc = "optimize"
    /\ run.pending = {}
    /\ LET after == _optimize_game_logo(src, out, cache_data, run.force)
       IN  /\ src' = after.tree
           /\ out' = after.outtree
           /\ cache_data' = after.cache
           /\ hist' = [hist EXCEPT !.optimized = Optimized(@, after.outtree, after.wrote)]
    /\ pc' = "copy"
    /\ UNCHANGED <<disk_cache, file_categories, ret, run>>

\* asset_manager.copy_static_files(force)
A_Copy ==
    /\ pc = "copy"
    /\ LET done == copy_static_files(src, out, cache_data, run.force)
       IN  /\ out' = done.outtree
           /\ hist' = [hist EXCEPT !.queued = done.queued, !.copied = done.copied]
    /\ pc' = "copied"
    /\ UNCHANGED <<src, disk_cache, cache_data, file_categories, ret, run>>

\* update_file_cache(file_categories['static'])
A_UpdateStatic ==
    /\ pc = "copied"
    /\ cache_data' = update_file_cache(src, cache_data, file_categories["static"])
    /\ pc' = "save"
    /\ UNCHANGED <<src, out, disk_cache, file_categories, ret, run, hist>>

\* build_cache.save_cache(), and the build returns
A_Save ==
    /\ pc = "save"
    /\ cache_data' = save_cache(cache_data)
    /\ disk_cache' = ValidFile(save_cache(cache_data))
    /\ pc' = "idle"
    /\ UNCHANGED <<src, out, file_categories, ret, run, hist>>

NextAssets ==
    \/ /\ pc = "idle"
       /\ \E p \in AssetSpecPaths :
            \E f \in IF Under(p, ImgDir) THEN {File(1, "c1", TRUE)}
                      ELSE {File(t, "c1", TRUE) : t \in 1..MaxTime} : Env_Write(p, f)
    \/ pc = "idle" /\ \E p \in AssetSpecPaths : Env_Remove(p)
    \/ \E force \in BOOLEAN : A_Begin(force)
    \/ \E name \in ParallelImageTasks : A_ImageTask(name)
    \/ A_GameLogo
    \/ A_Copy
    \/ A_UpdateStatic
    \/ A_Save

SpecAssets == InitAssets /\ [][NextAssets]_vars

(***************************************************************************)
(* Image-producer claims, under SpecAssets.                                *)
(***************************************************************************)
CopyReturned == pc = "copied"

Registered == Range(Get(cache_data, "processed_images", <<>>))

C3_OptimizerOutputsSurvive ==
    CopyReturned =>
        \A p \in DOMAIN hist.optimized :
            p \in DOMAIN out /\ out[p].content = hist.optimized[p]

(***************************************************************************)
(* PageBuilder (core/page_builder.py): where a page goes and how it is     *)
(* written.                                                                *)
(***************************************************************************)
IndexHtml == <<"index", ".html">>

\* get_page_output_path
get_page_output_path(page_key, is_game_page) ==
    IF is_game_page THEN Join(OutputDir, <<"games", "/", page_key, "/">> \o IndexHtml)
    ELSE IF page_key = "index" THEN Join(OutputDir, IndexHtml)
    ELSE IF page_key = "games" THEN Join(OutputDir, <<"games", "/">> \o IndexHtml)
    ELSE Join(OutputDir, <<page_key, "/">> \o IndexHtml)

\* a writer that opens the final path itself
FinalPathItself(full_output_path) == full_output_path

\* temp_file = f"{full_output_path}.tmp"
TempFile(full_output_path) == full_output_path \o <<".tmp">>

\* the rendered document of a page, as the chunks a write may stop between
Rendered(version) == <<version, "</html>">>

PageVersions == {"v1", "v2"}

CompleteDocuments == {Rendered(v) : v \in PageVersions}

(***************************************************************************)
(* SpecWrite: the page writers and the cache writer, one write at a time,  *)
(* each of which may stop (exception, kill) before any of its steps.       *)
(***************************************************************************)
\* the writers and the path each one writes
WriteJobs ==
    { [writer |-> "generate_page_direct", path |-> get_page_output_path("about-us", FALSE)],
      [writer |-> "generate_game_page", path |-> get_page_output_path("a", TRUE)],
      [writer |-> "generate_games_listing", path |-> get_page_output_path("games", FALSE)] }

\* what a path holds: nothing, or a content
Held(tree, path) == IF path \in DOMAIN tree THEN <<tree[path].content>> ELSE <<>>

NoWrite == [writer |-> "none", path |-> <<>>, html_content |-> <<>>,
            written |-> 0, before |-> <<>>]

InitWrite ==
    /\ src = EmptyDict
    /\ out = EmptyDict
    /\ disk_cache = AbsentFile
    /\ cache_data = EmptyDict
    /\ file_categories = InitialCategories
    /\ pc = "idle"
    /\ ret = NoCall
    /\ run = NoWrite
    /\ hist = [builds |-> 0]

\* template.render and resolve_asset_links have returned the document
W_Render(job, version) ==
    /\ pc = "idle"
    /\ run' = [writer |-> job.writer, path |-> job.path,
               html_content |-> Rendered(version), written |-> 0,
               before |-> Held(out, job.path)]
    /\ pc' = "open"
    /\ UNCHANGED <<src, out, disk_cache, cache_data, file_categories, ret, hist>>

\* open(temp_file, 'w'): the file is created or truncated
W_Open ==
    /\ pc = "open"
    /\ out' = Put(out, TempFile(run.path), OutFile(Now(src, out), <<>>))
    /\ pc' = "write"
    /\ UNCHANGED <<src, disk_cache, cache_data, file_categories, ret, run, hist>>

\* f.write(html_content), one chunk reaching the file
W_Write ==
    /\ pc = "write"
    /\ run.written < Len(run.html_content)
    /\ out' = [out EXCEPT ![TempFile(run.path)].content =
                              Append(@, run.html_content[run.written + 1])]
    /\ run' = [run EXCEPT !.written = @ + 1]
    /\ UNCHANGED <<src, disk_cache, cache_data, file_categories, pc, ret, hist>>

\* the file is closed; os.rename(temp_file, full_output_path)
W_Rename ==
    /\ pc = "write"
    /\ run.written = Len(run.html_content)
    /\ out' = Put(Del(out, TempFile(run.path)), run.path, out[TempFile(run.path)])
    /\ pc' = "idle"
    /\ run' = NoWrite
    /\ UNCHANGED <<src, disk_cache, cache_data, file_categories, ret, hist>>

\* save_cache, called by a build that fingerprinted an item file: the build
\* timestamp is set, then open(cache_file, 'w') truncates the cache file
W_SaveOpen(content) ==
    /\ pc = "idle"
    /\ cache_data' = save_cache(update_file_cache(GameA :> File(1, content, TRUE),
                                                  cache_data, <<GameA>>))
    /\ disk_cache' = [state |-> "corrupt", data |-> EmptyDict]
    /\ run' = [NoWrite EXCEPT !.writer = "save_cache", !.before = <<disk_cache>>]
    /\ pc' = "dump"
    /\ UNCHANGED <<src, out, file_categories, ret, hist>>

\* json.dump(self.cache_data, f) has written the whole document; the file
\* is closed
W_SaveDump ==
    /\ pc = "dump"
    /\ disk_cache' = ValidFile(cache_data)
    /\ pc' = "idle"
    /\ run' = NoWrite
    /\ UNCHANGED <<src, out, cache_data, file_categories, ret, hist>>

\* the writer stops: open or write raises, or the process is killed
W_Stop ==
    /\ pc \in {"open", "write", "dump"}
    /\ pc' = "idle"
    /\ run' = NoWrite
    /\ UNCHANGED <<src, out, disk_cache, cache_data, file_categories, ret, hist>>

NextWrite ==
    \/ \E job \in WriteJobs : \E version \in PageVersions : W_Render(job, version)
    \/ W_Open
    \/ W_Write
    \/ W_Rename
    \/ \E content \in {"c1", "c2"} : W_SaveOpen(content)
    \/ W_SaveDump
    \/ W_Stop

SpecWrite == InitWrite /\ [][NextWrite]_vars

(***************************************************************************)
(* Page-emission claim, under SpecWrite.                                   *)
(***************************************************************************)
FinalPaths == {job.path : job \in WriteJobs}

\* C7: a final output path never holds an empty or partial document: it
\* holds nothing or a complete document, and from the start of a write until
\* its rename it holds what it held before the write; only the .tmp file
\* holds a partial write.
C7_AtomicPageEmission ==
    /\ \A p \in FinalPaths :
           p \in DOMAIN out => out[p].content \in CompleteDocuments
    /\ pc \in {"open", "write"} => Held(out, run.path) = run.before

\* C7 witness: a write stopped midway: the .tmp file holds a partial document
\* next to the previous complete document of the final path
C7_Witness ==
    /\ pc = "idle"
    /\ \E p \in FinalPaths :
           /\ p \in DOMAIN out
           /\ TempFile(p) \in DOMAIN out
           /\ Len(out[TempFile(p)].content) = 1
           /\ out[TempFile(p)].content[1] # out[p].content[1]

(***************************************************************************)
(* The site of the full build: its templates, pages and items.             *)
(***************************************************************************)
SiteUrl == <<"https://example.com/">>

GamesContentDir == Join(ContentDir, <<"games">>)

\* env.get_template(name) returns a template: the file is there, can be read
\* and compiles (content c3 stands for a template with a syntax error)
TemplateLoads(tree, template_name) ==
    /\ template_name \in DOMAIN tree
    /\ tree[template_name].readable
    /\ tree[template_name].content # "c3"

\* GameManager.scan_games_content: the readable item files, sorted by name.
\* An item is named by its source file; its slug is the file's stem.
scan_games_content(tree) ==
    FilterSeq(AllSourcePaths,
              {p \in DOMAIN tree : /\ Under(p, GamesContentDir)
                                   /\ Len(p) = Len(GamesContentDir) + 3
                                   /\ p[Len(p)] = ".html"
                                   /\ tree[p].readable})

Slug(game) == game[Len(game) - 1]

Slugs(games) == [i \in DOMAIN games |-> Slug(games[i])]

\* _get_pages_from_config
_get_pages_from_config ==
    << [page_key |-> "index", template_name |-> IndexTemplate],
       [page_key |-> "about-us", template_name |-> PageTemplate],
       [page_key |-> "contact", template_name |-> PageTemplate],
       [page_key |-> "privacy-policy", template_name |-> PageTemplate],
       [page_key |-> "terms-of-service", template_name |-> PageTemplate],
       [page_key |-> "cookies-policy", template_name |-> PageTemplate],
       [page_key |-> "dmca", template_name |-> PageTemplate],
       [page_key |-> "parents-information", template_name |-> PageTemplate] >>

\* the document a page template renders: the page shows the items in its
\* sidebar
PageDocument(page_key, games) == <<page_key>> \o Slugs(games) \o <<"</html>">>

\* output paths outside the page scheme
Error404 == Join(OutputDir, <<"404", ".html">>)
OfflineHtml == Join(OutputDir, <<"offline", ".html">>)
OfflineIndex == Join(OutputDir, <<"offline", "/">> \o IndexHtml)
SitemapXml == Join(OutputDir, <<"sitemap", ".xml">>)

\* the legacy flat listing an earlier version of the generator left behind
LegacyGamesHtml == Join(OutputDir, <<"games", ".html">>)

\* the page writers, once temp file, write and rename have all succeeded,
\* and the set of files update_stats has counted as processed
Written(outtree, processed) == [outtree |-> outtree, processed |-> processed]

WritePage(st, full_output_path, html_content, now) ==
    Written(Put(Del(st.outtree, TempFile(full_output_path)),
                full_output_path, OutFile(now, html_content)),
            st.processed \cup {full_output_path})

RemoveAll(outtree, paths) ==
    [p \in (DOMAIN outtree) \ paths |-> outtree[p]]

\* _cleanup_legacy_files: the legacy path of the page key is removed
_cleanup_legacy_files(outtree, page_key) ==
    RemoveAll(outtree,
              IF page_key \in {"about-us", "contact"}
              THEN {Join(OutputDir, <<"pages", "/", page_key, ".html">>)}
              ELSE IF page_key \in {"privacy-policy", "terms-of-service", "cookies-policy",
                                    "dmca", "parents-information"}
              THEN {Join(OutputDir, <<"legal", "/", page_key, ".html">>)}
              ELSE IF page_key = "games" THEN {LegacyGamesHtml}
              ELSE {})

\* _generate_page: a template that does not load raises, and the exception
\* is swallowed
_generate_page(tree, st, page, games, now) ==
    IF ~TemplateLoads(tree, page.template_name) THEN st
    ELSE LET done == WritePage(st, get_page_output_path(page.page_key, FALSE),
                               PageDocument(page.page_key, games), now)
         IN  Written(_cleanup_legacy_files(done.outtree, page.page_key), done.processed)

\* the loop over the pages: a page is generated before the loop goes on
RECURSIVE GenerateAllPages(_, _, _, _, _)
GenerateAllPages(tree, st, pages, games, now) ==
    IF pages = <<>> THEN st
    ELSE CHOOSE done \in
             {GenerateAllPages(tree, generated, Tail(pages), games, now) :
                 generated \in {_generate_page(tree, st, Head(pages), games, now)}} : TRUE

\* _cleanup_legacy_game_files: the .html files of output/games itself, the
\* listing excepted
_cleanup_legacy_game_files(outtree) ==
    RemoveAll(outtree,
              {p \in DOMAIN outtree :
                  /\ Under(p, Join(OutputDir, <<"games">>))
                  /\ Len(p) = Len(OutputDir) + 5
                  /\ p[Len(p)] = ".html"
                  /\ Basename(p) # IndexHtml})

\* the loop of _generate_game_pages: generate_game_page renders the item's
\* content and the other items
RECURSIVE GenerateEachGame(_, _, _, _, _)
GenerateEachGame(tree, st, todo, games, now) ==
    IF todo = <<>> THEN st
    ELSE LET game == Head(todo)
             html_content ==
                 <<Slug(game), tree[game].content>>
                     \o Slugs(FilterSeq(games, Range(games) \ {game})) \o <<"</html>">>
         IN  CHOOSE done \in
                 {GenerateEachGame(tree, generated, Tail(todo), games, now) :
                     generated \in {WritePage(st, get_page_output_path(Slug(game), TRUE),
                                              html_content, now)}} : TRUE

\* _generate_game_pages: nothing happens without the index.html template
_generate_game_pages(tree, st, games, now) ==
    IF ~TemplateLoads(tree, IndexTemplate) THEN st
    ELSE LET done == GenerateEachGame(tree, st, games, games, now)
         IN  Written(_cleanup_legacy_game_files(done.outtree), done.processed)

\* generate_games_listing: games_list.html, else page.html
generate_games_listing(tree, st, games, now) ==
    IF /\ ~TemplateLoads(tree, <<"templates", "/", "games_list", ".html">>)
       /\ ~TemplateLoads(tree, PageTemplate)
    THEN st
    ELSE LET done == WritePage(st, get_page_output_path("games", FALSE),
                               PageDocument("games", games), now)
         IN  Written(RemoveAll(done.outtree, {LegacyGamesHtml}), done.processed)

\* generate_error_pages when its templates load: 404.html, offline.html and
\* offline/index.html, each through generate_page_direct
generate_error_pages(st, now) ==
    WritePage(WritePage(WritePage(st, Error404, Rendered("404"), now),
                        OfflineHtml, Rendered("offline"), now),
              OfflineIndex, Rendered("offline"), now)

\* _final_cleanup_legacy_files: games.html, and every .html file under
\* pages/ and legal/
_final_cleanup_legacy_files(outtree) ==
    RemoveAll(outtree,
              {LegacyGamesHtml} \cup
              {p \in DOMAIN outtree :
                  /\ \/ Under(p, Join(OutputDir, <<"pages">>))
                     \/ Under(p, Join(OutputDir, <<"legal">>))
                  /\ p[Len(p)] = ".html"})

(***************************************************************************)
(* URLBuilder (core/url_utils.py)                                          *)
(***************************************************************************)
\* str.lstrip('/')
RECURSIVE Lstrip(_)
Lstrip(s) == IF s # <<>> /\ Head(s) = "/" THEN Lstrip(Tail(s)) ELSE s

_is_file_resource(path) ==
    /\ path # <<>>
    /\ path[Len(path)] \in
           {".xml", ".txt", ".json", ".js", ".css", ".png", ".jpg", ".jpeg", ".gif",
            ".webp", ".svg", ".ico", ".woff", ".woff2", ".ttf", ".eot", ".pdf", ".zip"}

\* get_canonical_url
get_canonical_url(page_path) ==
    IF page_path = <<>> \/ page_path \in {<<"/">>, <<"index">>, IndexHtml}
    THEN SiteUrl
    ELSE LET bare == IF page_path[Len(page_path)] = ".html"
                     THEN DropLast(page_path, 1) ELSE page_path
             joined == Lstrip(bare)
         IN  IF joined = <<>> \/ joined[Len(joined)] = "/" \/ _is_file_resource(joined)
             THEN SiteUrl \o joined
             ELSE SiteUrl \o joined \o <<"/">>

(***************************************************************************)
(* SiteCrawler (core/site_crawler.py)                                      *)
(***************************************************************************)
\* the value None of _file_to_url
NoUrl == <<>>

\* a crawler that keeps the file name of a directory index in the URL
file_name_as_url(file_path) ==
    IF file_path \in {<<"404", ".html">>, <<"offline", ".html">>} THEN NoUrl
    ELSE IF file_path = IndexHtml THEN <<"/">>
    ELSE IF file_path[Len(file_path)] = ".html" THEN <<"/">> \o file_path
    ELSE NoUrl

\* _file_to_url
_file_to_url(file_path) ==
    IF file_path \in {<<"404", ".html">>, <<"offline", ".html">>} THEN NoUrl
    ELSE IF EndsWith(file_path, <<"/">> \o IndexHtml)
    THEN <<"/">> \o DropLast(file_path, 2)
    ELSE IF file_path = IndexHtml THEN <<"/">>
    ELSE IF file_path[Len(file_path)] = ".html" THEN <<"/">> \o file_path
    ELSE NoUrl

\* _discover_html_files; os.walk is told to skip the directories whose name
\* starts with a dot (.internal)
_discover_html_files(outtree) ==
    {_file_to_url(RelPath(p, OutputDir)) :
        p \in {q \in DOMAIN outtree :
                  /\ q[Len(q)] = ".html"
                  /\ \A i \in 1..(Len(q) - 2) : q[i] # ".internal"}} \ {NoUrl}

\* sorted(): every URL a page of the model can have, in string order
UrlOrder ==
    << <<"/">>,
       <<"/", "about-us", "/">>,
       <<"/", "contact", "/">>,
       <<"/", "cookies-policy", "/">>,
       <<"/", "dmca", "/">>,
       <<"/", "games", ".html">>,
       <<"/", "games", "/">>,
       <<"/", "games", "/", "a", ".html">>,
       <<"/", "games", "/", "a", "/">>,
       <<"/", "games", "/", "b", "/">>,
       <<"/", "offline", "/">>,
       <<"/", "pages", "/", "old", ".html">>,
       <<"/", "parents-information", "/">>,
       <<"/", "privacy-policy", "/">>,
       <<"/", "terms-of-service", "/">> >>

\* priority and change frequency of generate_sitemap_entries
EntryRank(page_url) ==
    IF page_url = <<"/">> THEN [priority |-> "1.0", changefreq |-> "daily"]
    ELSE IF StartsWith(page_url, <<"/", "games", "/">>)
    THEN IF page_url = <<"/", "games", "/">>
         THEN [priority |-> "0.9", changefreq |-> "daily"]
         ELSE [priority |-> "0.8", changefreq |-> "weekly"]
    ELSE IF page_url \in {<<"/", "about-us", "/">>, <<"/", "contact", "/">>}
    THEN [priority |-> "0.6", changefreq |-> "monthly"]
    ELSE IF page_url \in {<<"/", "privacy-policy", "/">>, <<"/", "terms-of-service", "/">>,
                          <<"/", "dmca", "/">>, <<"/", "cookies-policy", "/">>}
    THEN [priority |-> "0.3", changefreq |-> "yearly"]
    ELSE [priority |-> "0.5", changefreq |-> "monthly"]

\* generate_sitemap_entries
generate_sitemap_entries(discovered_pages) ==
    LET ordered == FilterSeq(UrlOrder, discovered_pages)
    IN  [i \in DOMAIN ordered |->
            [loc |-> SiteUrl \o Lstrip(ordered[i]),
             lastmod |-> "today",
             changefreq |-> EntryRank(ordered[i]).changefreq,
             priority |-> EntryRank(ordered[i]).priority]]

(***************************************************************************)
(* SEOManager (core/seo_manager.py)                                        *)
(***************************************************************************)
\* SEOManager.create_sitemap_xml(pages, games=None): the <url> elements it
\* adds, one for each entry of pages
UrlSet(pages) ==
    LET url(page) ==
            LET page_url == Get(page, "url", <<>>)
                starts_with_http == page_url # <<>> /\ Head(page_url) = Head(SiteUrl)
                loc == IF starts_with_http THEN page_url ELSE get_canonical_url(page_url)
            IN  <<"<url>", "<loc>">> \o loc
                    \o <<"</loc>", Get(page, "changefreq", "monthly"),
                         Get(page, "priority", "0.5"), "today", "</url>">>
    IN  Flatten([i \in DOMAIN pages |-> url(pages[i])], 1, Len(pages))

\* create_manifest, create_robots_txt, then SiteGenerator.create_sitemap_xml:
\* crawl, entries, sitemap
create_seo_files(outtree, now) ==
    LET with_manifest == Put(outtree, Join(OutputDir, <<"site", ".webmanifest">>),
                             OutFile(now, <<"manifest", "game">>))
        with_robots == Put(with_manifest, Join(OutputDir, <<"robots", ".txt">>),
                           OutFile(now, <<"Sitemap:">> \o get_canonical_url(<<"sitemap", ".xml">>)))
        discovered_pages == _discover_html_files(with_robots)
        sitemap_entries == generate_sitemap_entries(discovered_pages)
    IN  [discovered_pages |-> discovered_pages,
         sitemap_entries |-> sitemap_entries,
         outtree |-> Put(with_robots, SitemapXml,
                         OutFile(now, <<"<urlset>">> \o UrlSet(sitemap_entries)
                                          \o <<"</urlset>">>))]

(***************************************************************************)
(* The static stage of generate_site: _optimize_images, copy_static_files, *)
(* optimize_assets.                                                        *)
(***************************************************************************)
\* optimize_assets: every .css under assets/css and every .js under
\* assets/js is rewritten in place, minified (a minified file stays as it is)
optimize_assets(outtree, now) ==
    [p \in DOMAIN outtree |->
        IF \/ Under(p, Join(AssetsDir, <<"css">>)) /\ p[Len(p)] = ".css"
           \/ Under(p, Join(AssetsDir, <<"js">>)) /\ p[Len(p)] = ".js"
        THEN OutFile(now, IF outtree[p].content # <<>> /\ Head(outtree[p].content) = "min"
                          THEN outtree[p].content
                          ELSE <<"min">> \o outtree[p].content)
        ELSE outtree[p]]

\* generate_image_manifest: the images of the output root, listed in
\* output/.internal
generate_image_manifest(outtree, now) ==
    LET root_images == FilterSeq(<<OutFaviconRoot, OutLogoRoot>>, DOMAIN outtree)
    IN  Put(outtree, Join(OutputDir, <<".internal", "/", "image_manifest", ".json">>),
            OutFile(now, <<"images">> \o
                         [i \in DOMAIN root_images |-> root_images[i][3]]))

\* optimize_all_images: the parallel tasks, first of them the task named,
\* then the game logo
optimize_all_images(tree, outtree, cache, force, first) ==
    LET hero_first == first = "hero_images"
        one == IF hero_first THEN _optimize_hero_images(tree, outtree, cache, force)
               ELSE _optimize_favicon(tree, outtree, cache, force)
        two == IF hero_first THEN _optimize_favicon(one.tree, one.outtree, one.cache, force)
               ELSE _optimize_hero_images(one.tree, one.outtree, one.cache, force)
        logo == _optimize_game_logo(two.tree, two.outtree, two.cache, force)
    IN  Disks(logo.tree, logo.outtree, logo.cache, one.wrote \cup two.wrote \cup logo.wrote)

(***************************************************************************)
(* Spec: whole builds (SiteGenerator(force).generate_site()), one after    *)
(* the other, while items are written and deleted and the index template   *)
(* is edited between builds.  The output directory may start with legacy   *)
(* flat files.                                                             *)
(***************************************************************************)
\* the states the environment gives the source files it writes: the items
\* and the index template
SiteEnvFiles(p) ==
    IF p = IndexTemplate THEN {File(1, "c1", TRUE), File(1, "c3", TRUE)}
    ELSE IF p = GameA THEN {File(1, "c1", TRUE), File(1, "c2", TRUE)}
    ELSE {File(1, "c1", TRUE)}

\* the contents of a tree, mtimes left out
ContentsOf(outtree) == [p \in DOMAIN outtree |-> outtree[p].content]

SiteRun(force, static_changed, pages_need_rebuild, games) ==
    [force |-> force, static_changed |-> static_changed,
     pages_need_rebuild |-> pages_need_rebuild, games |-> games]

\* history of the builds: whether the last build to return was one without
\* force, whether a source was edited since; and for the running build whether it is a rerun (no force,
\* no edit since the previous build), the output contents it started from,
\* the categories has_changes reported, the files counted as processed, and
\* what the crawler discovered
SiteHistory(built, edited, rerun, before, changed, processed, discovered) ==
    [built |-> built, edited |-> edited, rerun |-> rerun, before |-> before,
     changed |-> changed, processed |-> processed, discovered |-> discovered]

\* The first build finds the templates, with or without error.html, the
\* settings and one image; an output directory that is empty or holds the
\* flat files of the previous scheme; and no cache file, or, next to a
\* directory of flat files, the cache file an earlier build of these sources
\* saved (the output directory was since replaced by an old deployment).
Init ==
    /\ src \in {[p \in with_templates |-> File(1, "c1", TRUE)] :
                   with_templates \in
                       {{GameLogoSrc, IndexTemplate, PageTemplate, SettingsFile} \cup error_template :
                           error_template \in {{}, {ErrorTemplate}}}}
    /\ out \in { EmptyDict,
                 [p \in {Join(OutputDir, <<"pages", "/", "old", ".html">>)} |->
                     OutFile(1, <<"legacy", "</html>">>)],
                 [p \in {LegacyGamesHtml, Join(OutputDir, <<"games", "/", "a", ".html">>)} |->
                     OutFile(1, <<"legacy", "</html>">>)] }
    /\ disk_cache \in
           IF ErrorTemplate \in DOMAIN src /\ out # EmptyDict
           THEN {AbsentFile,
                 ValidFile(save_cache(update_file_cache(src, EmptyDict,
                                                        FilterSeq(AllSourcePaths, DOMAIN src))))}
           ELSE {AbsentFile}
    /\ cache_data = EmptyDict
    /\ file_categories = InitialCategories
    /\ pc = "idle"
    /\ ret = NoCall
    /\ run = SiteRun(FALSE, FALSE, FALSE, <<>>)
    /\ hist = SiteHistory(FALSE, FALSE, FALSE, EmptyDict, {}, {}, {})

\* a source file is written between two builds
S_EnvWrite(p, f) ==
    /\ pc = "idle"
    /\ ~(p \in DOMAIN src /\ src[p] = f)
    /\ src' = Put(src, p, f)
    /\ hist' = [hist EXCEPT !.edited = TRUE]
    /\ UNCHANGED <<out, disk_cache, cache_data, file_categories, pc, ret, run>>

\* an item is deleted between two builds
S_EnvRemove(p) ==
    /\ pc = "idle"
    /\ p \in DOMAIN src
    /\ src' = Del(src, p)
    /\ hist' = [hist EXCEPT !.edited = TRUE]
    /\ UNCHANGED <<out, disk_cache, cache_data, file_categories, pc, ret, run>>

\* SiteGenerator(force): the cache is loaded and the sources are tracked;
\* generate_site: styles.css and sw.js are written, the static category is
\* checked
G_Begin(force) ==
    /\ pc = "idle"
    /\ LET loaded == _load_cache(disk_cache)
           tracked == _setup_file_tracking(src)
           now == Now(src, out)
           static_changed == has_changes(src, loaded, tracked, <<>>, "static", force)
       IN  /\ cache_data' = loaded
           /\ file_categories' = tracked
           /\ out' = Put(Put(out, Join(OutputDir, <<"templates", "/", "styles", ".css">>),
                             OutFile(now, <<"styles">>)),
                         Join(OutputDir, <<"sw", ".js">>), OutFile(now, <<"sw">>))
           /\ run' = SiteRun(force, static_changed, FALSE, <<>>)
           /\ hist' = [hist EXCEPT
                          !.rerun = ~force /\ hist.built /\ ~hist.edited,
                          !.before = IF ~force /\ hist.built /\ ~hist.edited
                                     THEN ContentsOf(out) ELSE EmptyDict,
                          !.changed = IF static_changed THEN {"static"} ELSE {},
                          !.processed = {},
                          !.discovered = {}]
    /\ pc' = "static"
    /\ UNCHANGED <<src, disk_cache, ret>>

\* the static stage (_optimize_images, copy_static_files, optimize_assets,
\* update_file_cache), or its skip
G_Static(first) ==
    /\ pc = "static"
    /\ IF run.static_changed
       THEN \E optimized \in {optimize_all_images(src, out, cache_data, run.force, first)} :
            \E listed \in {generate_image_manifest(optimized.outtree,
                                                    Now(optimized.tree, optimized.outtree))} :
            \E copied \in {copy_static_files(optimized.tree, listed, optimized.cache,
                                              run.force)} :
                /\ src' = optimized.tree
                /\ out' = optimize_assets(copied.outtree, Now(optimized.tree, copied.outtree))
                /\ cache_data' = update_file_cache(optimized.tree, optimized.cache,
                                                   file_categories["static"])
                /\ hist' = [hist EXCEPT !.processed = @ \cup optimized.wrote \cup copied.copied]
       ELSE /\ first = "hero_images"
            /\ UNCHANGED <<src, out, cache_data, hist>>
    /\ pc' = "pages"
    /\ UNCHANGED <<disk_cache, file_categories, ret, run>>

\* the content, templates and config checks; the page stage, or its skip
G_Pages ==
    /\ pc = "pages"
    /\ \E checked \in {{c \in {"content", "templates", "config"} :
                            has_changes(src, cache_data, file_categories, <<>>, c, run.force)}} :
       \E games \in {scan_games_content(src)} :
       \E now \in {Now(src, out)} :
       \E pages_done \in {GenerateAllPages(src, Written(out, hist.processed),
                                           _get_pages_from_config, games, now)} :
       \E game_pages_done \in {IF games # <<>>
                                THEN _generate_game_pages(src, pages_done, games, now)
                                ELSE pages_done} :
       \E done \in {IF games # <<>>
                     THEN generate_games_listing(src, game_pages_done, games, now)
                     ELSE pages_done} :
           LET pages_need_rebuild == checked # {} \/ run.force
               tracked == file_categories["content"] \o file_categories["templates"]
                              \o file_categories["config"]
           IN  /\ run' = [run EXCEPT !.pages_need_rebuild = pages_need_rebuild,
                                     !.games = games]
               /\ hist' = [hist EXCEPT
                              !.changed = @ \cup checked,
                              !.processed = IF pages_need_rebuild THEN done.processed ELSE @]
               /\ out' = IF pages_need_rebuild THEN done.outtree ELSE out
               /\ cache_data' = IF pages_need_rebuild
                                THEN update_file_cache(src, cache_data, tracked)
                                ELSE cache_data
    /\ pc' = "error_pages"
    /\ UNCHANGED <<src, disk_cache, file_categories, ret>>

\* generate_error_pages, every build.  generate_page_direct raises again
\* what get_template or render raised; neither generate_error_pages nor
\* generate_site handles it: without error.html the build ends here
G_ErrorPages ==
    /\ pc = "error_pages"
    /\ IF TemplateLoads(src, ErrorTemplate)
       THEN \E done \in {generate_error_pages(Written(out, hist.processed), Now(src, out))} :
                /\ out' = done.outtree
                /\ hist' = [hist EXCEPT !.processed = done.processed]
                /\ pc' = "seo"
       ELSE /\ pc' = "raised"
            /\ UNCHANGED <<out, hist>>
    /\ UNCHANGED <<src, disk_cache, cache_data, file_categories, ret, run>>

\* create_manifest, create_robots_txt, create_sitemap_xml
G_Seo ==
    /\ pc = "seo"
    /\ LET done == create_seo_files(out, Now(src, out))
       IN  /\ out' = done.outtree
           /\ hist' = [hist EXCEPT !.discovered = done.discovered_pages]
    /\ pc' = "save"
    /\ UNCHANGED <<src, disk_cache, cache_data, file_categories, ret, run>>

\* build_cache.save_cache()
G_Save ==
    /\ pc = "save"
    /\ cache_data' = save_cache(cache_data)
    /\ disk_cache' = ValidFile(save_cache(cache_data))
    /\ pc' = "cleanup"
    /\ UNCHANGED <<src, out, file_categories, ret, run, hist>>

\* _final_cleanup_legacy_files when something was rebuilt; generate_site
\* returns
G_Return ==
    /\ pc = "cleanup"
    /\ out' = IF run.static_changed \/ run.pages_need_rebuild \/ run.force
              THEN _final_cleanup_legacy_files(out)
              ELSE out
    /\ hist' = [hist EXCEPT !.built = ~run.force, !.edited = FALSE]
    /\ pc' = "returned"
    /\ UNCHANGED <<src, disk_cache, cache_data, file_categories, ret, run>>

\* the process exits
G_Exit ==
    /\ pc \in {"returned", "raised"}
    /\ pc' = "idle"
    /\ run' = SiteRun(FALSE, FALSE, FALSE, <<>>)
    /\ hist' = SiteHistory(hist.built, hist.edited, FALSE, EmptyDict, {}, {}, {})
    /\ cache_data' = EmptyDict
    /\ file_categories' = InitialCategories
    /\ UNCHANGED <<src, out, disk_cache, ret>>

Next ==
    \/ \E p \in {GameA, GameB, IndexTemplate} : \E f \in SiteEnvFiles(p) : S_EnvWrite(p, f)
    \/ \E p \in {GameA, GameB} : S_EnvRemove(p)
    \/ \E force \in BOOLEAN : G_Begin(force)
    \/ \E first \in ParallelImageTasks : G_Static(first)
    \/ G_Pages
    \/ G_ErrorPages
    \/ G_Seo
    \/ G_Save
    \/ G_Return
    \/ G_Exit

Spec == Init /\ [][Next]_vars

(***************************************************************************)
(* Whole-build claims, under Spec.                                         *)
(***************************************************************************)
Returned == pc = "returned"

\* the item pages of a tree, and the content file of an item page
ItemPages(outtree) ==
    {p \in DOMAIN outtree :
        /\ Under(p, Join(OutputDir, <<"games">>))
        /\ Len(p) = Len(OutputDir) + 7
        /\ Basename(p) = IndexHtml}

ContentFileOf(item_page) ==
    Join(GamesContentDir, <<item_page[Len(OutputDir) + 4], ".html">>)

\* C2: when a build has returned, forced or not, every item page
\* games/<slug>/index.html of the output tree belongs to an item whose
\* content file exists in the content directory.
C2_NoStaleItemPages ==
    Returned => \A p \in ItemPages(out) : ContentFileOf(p) \in DOMAIN src

\* the <loc> values of a sitemap document, in document order
LocsOf(content) ==
    LET opens == SelectSeq([i \in DOMAIN content |-> i], LAMBDA i : content[i] = "<loc>")
        close(open) == CHOOSE i \in (open + 1)..Len(content) :
                           /\ content[i] = "</loc>"
                           /\ \A j \in (open + 1)..(i - 1) : content[j] # "</loc>"
    IN  [k \in DOMAIN opens |-> SubSeq(content, opens[k] + 1, close(opens[k]) - 1)]

SitemapLocs == LocsOf(out[SitemapXml].content)

\* the output file a URL of the site is served from
FileOfLoc(loc) ==
    LET path == DropFirst(loc, Len(SiteUrl))
    IN  IF path = <<>> THEN Join(OutputDir, IndexHtml)
        ELSE IF path[Len(path)] = "/" THEN OutputDir \o <<"/">> \o path \o IndexHtml
        ELSE Join(OutputDir, path)

\* C5: when generate_site returns, every <loc> of sitemap.xml is the URL of
\* an HTML file that exists in the output tree.
C5_SitemapSubsetOfReality ==
    Returned => \A loc \in Range(SitemapLocs) : FileOfLoc(loc) \in DOMAIN out

\* the same for the entries the crawler handed to the sitemap writer: each
\* names a file that still exists when generate_site returns
C5_CrawledEntriesExistAtReturn ==
    Returned => \A page_url \in hist.discovered :
                    FileOfLoc(SiteUrl \o Lstrip(page_url)) \in DOMAIN out

\* C6: once the sitemap is written, every page URL the crawler discovered
\* has a <loc> whose value is the site URL joined with the page's own path,
\* and there are as many distinct <loc> values as discovered pages.
C6_SitemapCoverage ==
    pc \in {"save", "cleanup", "returned"} =>
        /\ \A page_url \in hist.discovered :
               SiteUrl \o Lstrip(page_url) \in Range(SitemapLocs)
        /\ Cardinality(Range(SitemapLocs)) = Cardinality(hist.discovered)

\* a build without force that follows a build without force, no source
\* edited in between, has returned
SecondRunReturned == Returned /\ hist.rerun

\* C8: the second of two builds in a row without force and without a source
\* change in between detects no change in any category, counts no file as
\* processed, and leaves every file of the output tree with the content it
\* had after the first build, and no other file.
C8_SecondRunIdempotent ==
    SecondRunReturned =>
        /\ hist.changed = {}
        /\ hist.processed = {}
        /\ ContentsOf(out) = hist.before

\* what the second build does: it detects no change, it generates the three
\* error pages again and counts them as processed, and it rewrites the
\* sitemap from a new crawl; every other file keeps its content
C8_SecondRunSkipsStages ==
    SecondRunReturned =>
        /\ hist.changed = {}
        /\ hist.processed = {Error404, OfflineHtml, OfflineIndex}
        /\ DOMAIN out = DOMAIN hist.before
        /\ \A p \in (DOMAIN out) \ {SitemapXml} : out[p].content = hist.before[p]

(***************************************************************************)
(* Fingerprint claims, under Spec.                                         *)
(***************************************************************************)
\* update_file_cache has stored, in the running build, a fingerprint of p
\* that the build did not load from the cache file
StoredThisBuild(p) ==
    LET loaded == Get(_load_cache(disk_cache), "files", EmptyDict)
    IN  /\ HasEntry(p)
        /\ p \in DOMAIN loaded => loaded[p] # Entry(p)

\* C11: when the page stage is over, a content file whose fingerprint was
\* stored in this build has its item page written in this build, and the
\* index template, if its fingerprint was stored, has index.html written in
\* this build.
C11_FingerprintsOnlyForOutputs ==
    pc = "error_pages" =>
        /\ \A game \in {GameA, GameB} :
               StoredThisBuild(game) =>
                   get_page_output_path(Slug(game), TRUE) \in hist.processed
        /\ StoredThisBuild(IndexTemplate) =>
               get_page_output_path("index", FALSE) \in hist.processed

(***************************************************************************)
(* Fingerprinting of unreadable files, under SpecCache.                    *)
(***************************************************************************)
\* C12: a tracked file that exists and cannot be read is in the set
\* get_changed_files returns for it, whatever the cache holds.
C12_UnreadableAlwaysChanged ==
    \A p \in TrackedEverywhere :
        (p \in DOMAIN src /\ ~src[p].readable) =>
            p \in get_changed_files(src, cache_data, <<p>>)

(***************************************************************************)
(* Loading the cache file, under SpecCache.                                *)
(***************************************************************************)
\* C13: for a process that found the cache file missing or damaged, the
\* constructor has not raised, the cache it starts with is empty, and every
\* has_changes call of the process returns true.
C13_DamagedCacheIsFirstBuild ==
    hist.found # "valid" =>
        /\ pc # "raised"
        /\ ret.op = "BuildCache" => cache_data = EmptyDict
        /\ CalledHasChanges => ret.result

(***************************************************************************)
(* Cache persistence claim, under SpecWrite.                               *)
(***************************************************************************)
\* C14: the cache file is never truncated or partial: it is absent or holds
\* a complete cache, and from the start of a save until its end it holds
\* what it held before the save.
C14_AtomicCachePersistence ==
    /\ disk_cache.state \in {"absent", "valid"}
    /\ pc = "dump" => disk_cache = run.before[1]

(***************************************************************************)
(* Root allowlist claim, under SpecAssets.                                 *)
(***************************************************************************)
\* C15: when copy_static_files returns, every static source file it copied
\* into the output tree matches a pattern of a typed bucket or a name of the
\* root allowlist, and no file named secrets.json is in the output tree.
C15_RootAllowlist ==
    CopyReturned =>
        /\ \A p \in hist.copied :
               \E i \in DOMAIN (asset_mappings \o root_files_allowlist) :
                   GlobMatches(p, (asset_mappings \o root_files_allowlist)[i].pattern)
        /\ \A q \in DOMAIN out : Basename(q) # <<"secrets", ".json">>

(***************************************************************************)
(* Clean-URL claim, under Spec.                                            *)
(***************************************************************************)
\* the crawl of the running build is over
Crawled == pc \in {"save", "cleanup", "returned"}

\* the page at full_output_path, when it exists, is the file path_in_output
\* of the output directory, _file_to_url maps it to page_url, and the crawl
\* discovered page_url
RoundTrip(full_output_path, path_in_output, page_url) ==
    full_output_path \in DOMAIN out =>
        /\ full_output_path = Join(OutputDir, path_in_output)
        /\ _file_to_url(RelPath(full_output_path, OutputDir)) = page_url
        /\ Crawled => page_url \in hist.discovered

\* C16: a page key k other than index is written at <output>/k/index.html,
\* which the crawler maps to /k/; an item slug s at
\* <output>/games/s/index.html, mapped to /games/s/; the index page at
\* <output>/index.html, mapped to /.
C16_CleanUrlRoundTrip ==
    /\ \A k \in {_get_pages_from_config[i].page_key : i \in DOMAIN _get_pages_from_config}
              \cup {"games"} :
           IF k = "index"
           THEN RoundTrip(get_page_output_path(k, FALSE), IndexHtml, <<"/">>)
           ELSE RoundTrip(get_page_output_path(k, FALSE),
                          <<k, "/">> \o IndexHtml, <<"/", k, "/">>)
    /\ \A game \in {GameA, GameB} :
           RoundTrip(get_page_output_path(Slug(game), TRUE),
                     <<"games", "/", Slug(game), "/">> \o IndexHtml,
                     <<"/", "games", "/", Slug(game), "/">>)

\* C16 witness: the crawl is over with the index page, a static page, the
\* listing and an item page in the output tree
C16_Witness ==
    /\ Crawled
    /\ {get_page_output_path("index", FALSE), get_page_output_path("about-us", FALSE),
        get_page_output_path("games", FALSE), get_page_output_path(Slug(GameA), TRUE)}
           \subseteq DOMAIN out

(***************************************************************************)
(* Item ratings (core/game_manager.py, core/seo_manager.py and the item    *)
(* loop of core/generator_refactored.py).  A number is a record of its     *)
(* kind and its digits: a rating value is held in tenths, a rating count   *)
(* in units.  The content of an item file is what its metadata comment     *)
(* holds.                                                                  *)
(***************************************************************************)
Number(n) == [kind |-> "number", n |-> n]

\* str(value)
Str(value) == [value EXCEPT !.kind = "str"]

\* int(hashlib.sha256(slug).hexdigest()[:8], 16), as its high and low 16
\* bits: ca978112 for a, 3e23e816 for b
SlugHash(game_slug) ==
    IF game_slug = "a" THEN [hi |-> 51863, lo |-> 33042] ELSE [hi |-> 15907, lo |-> 59414]

\* h % m
HashMod(h, m) == (((h.hi % m) * (65536 % m)) + (h.lo % m)) % m

\* round(x, 1) of a value given in hundredths, in tenths.  The value is a
\* binary float: of the sums 3.0 + r/100 and 3.5 + r/100 that end in 5, the
\* ones listed lie below the tie and round down, the others round up
RoundTenths(hundredths) ==
    IF hundredths \in {305, 315, 325, 355, 365, 405, 425, 435, 455, 485}
    THEN hundredths \div 10
    ELSE (hundredths + 5) \div 10

\* _extract_metadata: the JSON object of the meta comment, {} without one
_extract_metadata(html_content) ==
    IF html_content.meta_comment THEN html_content.block ELSE EmptyDict

\* game.get("meta", {}).get("rating"), None taken as the empty dict
MetaRating(meta) == Get(meta, "rating", EmptyDict)

\* generate_game_rating without a custom rating, from the hash h of the slug
SyntheticRating(h) ==
    LET rating_value == RoundTenths(300 + HashMod(h, 200))
    IN  [ratingValue |-> Number(IF rating_value > 50 THEN 50 ELSE rating_value),
         ratingCount |-> Number(250 + HashMod(h, 5001))]

\* generate_game_rating
generate_game_rating(game_slug, custom_rating) ==
    IF DOMAIN custom_rating # {} THEN custom_rating
    ELSE SyntheticRating(SlugHash(game_slug))

\* get_software_application_schema: its aggregateRating
get_software_application_schema(game_slug, game_rating) ==
    LET h == SlugHash(game_slug)
        default_value == RoundTenths(350 + HashMod(h, 150))
    IN  IF DOMAIN game_rating = {}
        THEN [ratingValue |-> Str(Number(IF default_value > 49 THEN 49 ELSE default_value)),
              ratingCount |-> Str(Number(150 + HashMod(h, 3351)))]
        ELSE [ratingValue |-> Str(Get(game_rating, "ratingValue", Number(45))),
              ratingCount |-> Str(Get(game_rating, "ratingCount", Number(1000)))]

(***************************************************************************)
(* SpecRating: the item files are edited between builds; a build scans     *)
(* them and writes the page of each item with its structured data.         *)
(***************************************************************************)
\* what an item file may hold: no metadata comment, a comment with the
\* rating at the top level of the object, one with the rating under the key
\* rating, one with an empty rating object
ItemContents ==
    { [meta_comment |-> FALSE, block |-> EmptyDict],
      [meta_comment |-> TRUE,
       block |-> [title |-> "B Game", ratingValue |-> Number(48), ratingCount |-> Number(900)]],
      [meta_comment |-> TRUE,
       block |-> [title |-> "B Game",
                  rating |-> [ratingValue |-> Number(48), ratingCount |-> Number(900)]]],
      [meta_comment |-> TRUE, block |-> [title |-> "B Game", rating |-> EmptyDict]] }

InitRating ==
    /\ src = EmptyDict
    /\ out = EmptyDict
    /\ disk_cache = AbsentFile
    /\ cache_data = EmptyDict
    /\ file_categories = InitialCategories
    /\ pc = "idle"
    /\ ret = NoCall
    /\ run = <<>>
    /\ hist = EmptyDict

R_Write(game, html_content) ==
    /\ pc = "idle"
    /\ src' = Put(src, game, File(1, html_content, TRUE))
    /\ UNCHANGED <<out, disk_cache, cache_data, file_categories, pc, ret, run, hist>>

\* scan_games_content, then _generate_game_pages(games) starts
R_Scan ==
    /\ pc = "idle"
    /\ run' = scan_games_content(src)
    /\ hist' = EmptyDict
    /\ pc' = "games"
    /\ UNCHANGED <<src, out, disk_cache, cache_data, file_categories, ret>>

\* one turn of the loop of _generate_game_pages; hist keeps the
\* aggregateRating of the page written for each slug
R_GamePage ==
    /\ pc = "games"
    /\ run # <<>>
    /\ LET game_slug == Slug(Head(run))
           meta == _extract_metadata(src[Head(run)].content)
           rating == generate_game_rating(game_slug, MetaRating(meta))
           software_schema == get_software_application_schema(game_slug, rating)
       IN  /\ hist' = Put(hist, game_slug, software_schema)
           /\ out' = Put(out, get_page_output_path(game_slug, TRUE),
                         OutFile(Now(src, out), <<game_slug, "</html>">>))
    /\ run' = Tail(run)
    /\ UNCHANGED <<src, disk_cache, cache_data, file_categories, pc, ret>>

R_Return ==
    /\ pc = "games"
    /\ run = <<>>
    /\ pc' = "idle"
    /\ UNCHANGED <<src, out, disk_cache, cache_data, file_categories, ret, run, hist>>

NextRating ==
    \/ \E game \in {GameA, GameB} : \E html_content \in ItemContents :
           R_Write(game, html_content)
    \/ R_Scan
    \/ R_GamePage
    \/ R_Return

SpecRating == InitRating /\ [][NextRating]_vars

(***************************************************************************)
(* Rating claim, under SpecRating.                                         *)
(***************************************************************************)
\* the aggregateRating that shows exactly the two values of supplied
Shown(supplied) ==
    [ratingValue |-> Str(supplied.ratingValue), ratingCount |-> Str(supplied.ratingCount)]

\* C17: while the item pages are written, the page of every item whose
\* metadata object holds ratingValue and ratingCount, at its top level or
\* under the key rating, shows exactly those two values.
C17_ExplicitRatingOverrides ==
    pc = "games" =>
        \A game \in {GameA, GameB} :
            Slug(game) \in DOMAIN hist =>
                LET meta == _extract_metadata(src[game].content)
                IN  /\ {"ratingValue", "ratingCount"} \subseteq DOMAIN meta =>
                           hist[Slug(game)] = Shown(meta)
                    /\ {"ratingValue", "ratingCount"} \subseteq DOMAIN MetaRating(meta) =>
                           hist[Slug(game)] = Shown(MetaRating(meta))

(***************************************************************************)
(* SiteCrawler.validate_build (core/site_crawler.py).  SpecValidate: a     *)
(* crawl adds to its findings, and validate_build is called with its       *)
(* argument passed or left out.                                            *)
(***************************************************************************)
MaxFindings == 3

\* validate_build(fail_on_errors): whether the build is valid and whether
\* the call raised ValueError
validate_build(crawl, fail_on_errors) ==
    LET is_valid == /\ crawl.broken_links = 0
                    /\ crawl.missing_assets = 0
                    /\ crawl.discovered_pages # 0
    IN  [is_valid |-> is_valid, raised |-> ~is_valid /\ fail_on_errors]

\* the value of fail_on_errors in a call: its default when it is left out
FailOnErrors(passed) == IF passed = "omitted" THEN TRUE ELSE passed = "True"

InitValidate ==
    /\ src = EmptyDict
    /\ out = EmptyDict
    /\ disk_cache = AbsentFile
    /\ cache_data = EmptyDict
    /\ file_categories = InitialCategories
    /\ pc = "idle"
    /\ ret = [op |-> "none", passed |-> "omitted", is_valid |-> TRUE, raised |-> FALSE]
    /\ run = [broken_links |-> 0, missing_assets |-> 0, discovered_pages |-> 0]
    /\ hist = EmptyDict

\* crawl_site records a page, a broken link or a missing asset
V_Crawl(finding) ==
    /\ run[finding] < MaxFindings
    /\ run' = [run EXCEPT ![finding] = @ + 1]
    /\ UNCHANGED <<src, out, disk_cache, cache_data, file_categories, pc, ret, hist>>

V_Validate(passed) ==
    /\ ret' = [op |-> "validate_build", passed |-> passed,
               is_valid |-> validate_build(run, FailOnErrors(passed)).is_valid,
               raised |-> validate_build(run, FailOnErrors(passed)).raised]
    /\ UNCHANGED <<src, out, disk_cache, cache_data, file_categories, pc, run, hist>>

NextValidate ==
    \/ \E finding \in {"broken_links", "missing_assets", "discovered_pages"} :
           V_Crawl(finding)
    \/ \E passed \in {"omitted", "True", "False"} : V_Validate(passed)

SpecValidate == InitValidate /\ [][NextValidate]_vars

\* C18: a call of validate_build that does not pass fail_on_errors does not
\* raise, whatever the crawl found; a call raises only when the caller
\* passed fail_on_errors=True.
C18_ValidateDoesNotRaiseByDefault ==
    ret.op = "validate_build" =>
        /\ ret.passed = "omitted" => ~ret.raised
        /\ ret.raised => ret.passed = "True"

(***************************************************************************)
(* Page failure claim, under Spec.                                         *)
(***************************************************************************)
\* C19: no build is aborted by a template that fails to load for one of its
\* pages, and a build that returns has written the sitemap and saved the
\* cache.
C19_PageFailureIsolated ==
    /\ pc # "raised"
    /\ Returned => SitemapXml \in DOMAIN out /\ disk_cache = ValidFile(cache_data)

(***************************************************************************)
(* Legacy cleanup claim, under Spec.                                       *)
(***************************************************************************)
\* C20: when generate_site has returned, whether or not a category had
\* changed, the output tree holds no games.html at its root and no .html
\* file under pages/ or legal/.
C20_LegacyCleanupEveryBuild ==
    Returned =>
        \A p \in DOMAIN out :
            /\ p # LegacyGamesHtml
            /\ ~(/\ p[Len(p)] = ".html"
                 /\ \/ Under(p, Join(OutputDir, <<"pages">>))
                    \/ Under(p, Join(OutputDir, <<"legal">>)))

(***************************************************************************)
(* SpecScan: one BuildCache object over a source tree that does not        *)
(* change; its directories are scanned any number of times and the         *)
(* statistics are read.                                                    *)
(***************************************************************************)
MaxScanned == 4       \* a category is scanned again while it lists fewer paths

\* get_cache_stats: the counts of tracked files
get_cache_stats(cats) ==
    [op |-> "get_cache_stats",
     total_tracked_files |-> Len(ConcatAll(cats, <<"content", "static">>)),
     categories |-> [c \in DOMAIN cats |-> Len(cats[c])]]

\* the directory and the patterns generate_site scans for a category
ScanOf(category) ==
    IF category = "content" THEN [directory |-> ContentDir, patterns |-> ContentPatterns]
    ELSE [directory |-> StaticDir, patterns |-> StaticPatterns]

InitScan ==
    /\ src \in {[p \in present |-> File(1, "c1", TRUE)] :
                   present \in SUBSET {GameA, GameB, MainCss}}
    /\ out = EmptyDict
    /\ disk_cache = AbsentFile
    /\ cache_data = EmptyDict
    /\ file_categories = InitialCategories
    /\ pc = "running"
    /\ ret = [get_cache_stats(InitialCategories) EXCEPT !.op = "none"]
    /\ run = [force |-> FALSE]
    /\ hist = EmptyDict

\* scan_directory(directory, patterns, category)
Sc_Scan(category) ==
    /\ Len(file_categories[category]) < MaxScanned
    /\ file_categories' =
           [file_categories EXCEPT
               ![category] = @ \o scan_directory(src, ScanOf(category).directory,
                                                 ScanOf(category).patterns)]
    /\ UNCHANGED <<src, out, disk_cache, cache_data, pc, ret, run, hist>>

\* get_cache_stats()
Sc_Stats ==
    /\ ret' = get_cache_stats(file_categories)
    /\ UNCHANGED <<src, out, disk_cache, cache_data, file_categories, pc, run, hist>>

NextScan ==
    \/ \E category \in {"content", "static"} : Sc_Scan(category)
    \/ Sc_Stats

SpecScan == InitScan /\ [][NextScan]_vars

\* C21: however many times a directory was scanned, its category lists the
\* paths of one scan (or none before the first scan), and get_cache_stats
\* counts each category as one scan does.
C21_ScanIdempotent ==
    \A category \in {"content", "static"} :
        LET once == scan_directory(src, ScanOf(category).directory,
                                   ScanOf(category).patterns)
        IN  /\ file_categories[category] \in {<<>>, once}
            /\ ret.categories[category] \in {0, Len(once)}

(***************************************************************************)
(* Stage order claim, under Spec.                                          *)
(***************************************************************************)
\* C22: at every point of a build where a change-detection decision is
\* still to be taken (has_changes for the static category when the build
\* begins; for content, templates and config when the page stage is
\* entered), neither the asset copy nor the image derivation of that build
\* has run.
C22_DetectionBeforeStaticStage ==
    pc = "pages" => ~run.static_changed

(***************************************************************************)
(* SpecRegister: the two image families of the parallel batch that         *)
(* register their source (hero image, favicon) run in worker threads; each *)
(* statement of register_processed_image that reads or writes cache_data   *)
(* is a step of its thread.  The game logo registers after the batch.      *)
(***************************************************************************)
RegisteringFamilies == {"hero_images", "favicon"}

SourceOf(family) == IF family = "hero_images" THEN HeroSrc ELSE FaviconSrc

\* the registry the build starts with: none (first build, or a cache saved
\* without one), or the registry an earlier build saved
InitRegister ==
    /\ src = EmptyDict
    /\ out = EmptyDict
    /\ disk_cache = AbsentFile
    /\ cache_data \in {EmptyDict,
                       register_processed_image(EmptyDict, GameLogoSrc),
                       register_processed_image(EmptyDict, HeroSrc),
                       register_processed_image(EmptyDict, FaviconSrc)}
    /\ file_categories = InitialCategories
    /\ pc = [family \in RegisteringFamilies |-> "task"]
    /\ ret = NoCall
    /\ run = [force |-> FALSE]
    /\ hist = {}

\* the family has nothing to do (no source, or its output is up to date)
P_Skip(family) ==
    /\ pc[family] = "task"
    /\ pc' = [pc EXCEPT ![family] = "done"]
    /\ UNCHANGED <<src, out, disk_cache, cache_data, file_categories, ret, run, hist>>

\* the family has written its outputs and calls register_processed_image
P_Call(family) ==
    /\ pc[family] = "task"
    /\ pc' = [pc EXCEPT ![family] = "check"]
    /\ hist' = hist \cup {SourceOf(family)}
    /\ UNCHANGED <<src, out, disk_cache, cache_data, file_categories, ret, run>>

\* if 'processed_images' not in self.cache_data
P_Check(family) ==
    /\ pc[family] = "check"
    /\ pc' = [pc EXCEPT ![family] = IF "processed_images" \in DOMAIN cache_data
                                    THEN "append" ELSE "create"]
    /\ UNCHANGED <<src, out, disk_cache, cache_data, file_categories, ret, run, hist>>

\* self.cache_data['processed_images'] = []
P_Create(family) ==
    /\ pc[family] = "create"
    /\ cache_data' = Put(cache_data, "processed_images", <<>>)
    /\ pc' = [pc EXCEPT ![family] = "append"]
    /\ UNCHANGED <<src, out, disk_cache, file_categories, ret, run, hist>>

\* the membership test and the append
P_Append(family) ==
    /\ pc[family] = "append"
    /\ cache_data' = register_processed_image(cache_data, SourceOf(family))
    /\ pc' = [pc EXCEPT ![family] = "done"]
    /\ UNCHANGED <<src, out, disk_cache, file_categories, ret, run, hist>>

\* the batch is over; _optimize_game_logo registers its source and
\* optimize_all_images returns
P_GameLogo ==
    /\ \A family \in RegisteringFamilies : pc[family] = "done"
    /\ cache_data' = register_processed_image(cache_data, GameLogoSrc)
    /\ hist' = hist \cup {GameLogoSrc}
    /\ pc' = [family \in RegisteringFamilies |-> "returned"]
    /\ UNCHANGED <<src, out, disk_cache, file_categories, ret, run>>

NextRegister ==
    \/ \E family \in RegisteringFamilies :
           \/ P_Skip(family)
           \/ P_Call(family)
           \/ P_Check(family)
           \/ P_Create(family)
           \/ P_Append(family)
    \/ P_GameLogo

SpecRegister == InitRegister /\ [][NextRegister]_vars

\* C23: when optimize_all_images has returned, every source path a family
\* registered in this run is in the registry, exactly once.
C23_NoLostRegistration ==
    (\A family \in RegisteringFamilies : pc[family] = "returned") =>
        \A p \in hist :
            Cardinality({i \in DOMAIN Get(cache_data, "processed_images", <<>>) :
                            cache_data["processed_images"][i] = p}) = 1

(***************************************************************************)
(* SpecCopy: copy_static_files on a static directory holding style sheets  *)
(* and a favicon.  The tasks are collected first; the workers of           *)
(* _execute_parallel_copy then run them in any order, and the main thread  *)
(* counts each result as its task completes.                               *)
(***************************************************************************)
CopySpecPaths == {MainCss, RootCss, FaviconSrc}

\* each source has a content of its own, which tells the copies apart
ContentAt(p) == IF p = MainCss THEN "c1" ELSE IF p = RootCss THEN "c2" ELSE "c3"

NoStats == [copied |-> 0, skipped |-> 0, errors |-> 0]

\* the aggregation that forgets the tasks that failed
count_without_errors(stats, result) ==
    IF result = "copied" THEN [stats EXCEPT !.copied = @ + 1]
    ELSE IF result = "skipped" THEN [stats EXCEPT !.skipped = @ + 1]
    ELSE stats

\* the body of the as_completed loop: one result added to stats
CountResult(stats, result) ==
    IF result = "copied" THEN [stats EXCEPT !.copied = @ + 1]
    ELSE IF result = "skipped" THEN [stats EXCEPT !.skipped = @ + 1]
    ELSE IF result = "error" THEN [stats EXCEPT !.errors = @ + 1]
    ELSE stats

InitCopy ==
    /\ src \in {[p \in present |-> File(mtime[p], ContentAt(p), p \in readable)] :
                   <<present, readable, mtime>> \in
                       {<<S, R, t>> : S \in SUBSET CopySpecPaths, R \in SUBSET CopySpecPaths,
                                      t \in [CopySpecPaths -> 1..MaxTime]}}
    /\ out = EmptyDict
    /\ disk_cache = AbsentFile
    /\ cache_data = EmptyDict
    /\ file_categories = InitialCategories
    /\ pc = "idle"
    /\ ret = NoCall
    /\ run = [force |-> FALSE, tasks |-> <<>>, pending |-> {}, stats |-> NoStats]
    /\ hist = EmptyDict

\* copy_static_files(force) up to the submission of the collected tasks
K_Collect(force) ==
    /\ pc = "idle"
    /\ LET copy_tasks == CollectAll(asset_mappings \o root_files_allowlist,
                                    src, out, cache_data, force)
       IN  run' = [force |-> force, tasks |-> copy_tasks,
                   pending |-> DOMAIN copy_tasks, stats |-> NoStats]
    /\ hist' = EmptyDict
    /\ ret' = NoCall
    /\ pc' = "copying"
    /\ UNCHANGED <<src, out, disk_cache, cache_data, file_categories>>

\* a worker runs _copy_single_file on one task, and the as_completed loop
\* counts its result
K_Task(i) ==
    /\ pc = "copying"
    /\ i \in run.pending
    /\ LET task == run.tasks[i]
           result == CopyResult(src, out, task)
       IN  /\ out' = _copy_single_file(src, out, task)
           /\ hist' = Put(hist, i, result)
           /\ run' = [run EXCEPT !.pending = @ \ {i},
                                 !.stats = CountResult(@, result)]
    /\ UNCHANGED <<src, disk_cache, cache_data, file_categories, pc, ret>>

\* _execute_parallel_copy returns its stats; copy_static_files then copies
\* the img directory if there is one
K_Return ==
    /\ pc = "copying"
    /\ run.pending = {}
    /\ ret' = [op |-> "_execute_parallel_copy", submitted |-> Len(run.tasks),
               stats |-> run.stats]
    /\ out' = IF DirExists(src, ImgDir)
              THEN _copy_directory(src, out, ImgDir, ImagesDir)
              ELSE out
    /\ pc' = "idle"
    /\ UNCHANGED <<src, disk_cache, cache_data, file_categories, run, hist>>

NextCopy ==
    \/ \E force \in BOOLEAN : K_Collect(force)
    \/ \E i \in 1..(2 * Cardinality(CopySpecPaths)) : K_Task(i)
    \/ K_Return

SpecCopy == InitCopy /\ [][NextCopy]_vars

\* C24: no two tasks queued by one copy_static_files run have the same
\* destination path.
C24_DistinctDestinations ==
    pc = "copying" =>
        \A i \in DOMAIN run.tasks : \A j \in DOMAIN run.tasks :
            i # j => run.tasks[i].target # run.tasks[j].target

\* _execute_parallel_copy has returned
CopyBatchReturned == ret.op = "_execute_parallel_copy"

\* C25: when _execute_parallel_copy returns, copied + skipped + errors is the
\* number of submitted tasks; every task was attempted, and each task that
\* failed is counted once, as an error.
C25_OutcomeAggregationExact ==
    CopyBatchReturned =>
        /\ ret.stats.copied + ret.stats.skipped + ret.stats.errors = ret.submitted
        /\ DOMAIN hist = 1..ret.submitted
        /\ ret.stats.errors = Cardinality({i \in DOMAIN hist : hist[i] = "error"})

\* a batch in which one task failed and another one copied its file
C25_Witness ==
    /\ CopyBatchReturned
    /\ ret.stats.errors > 0
    /\ ret.stats.copied > 0

(***************************************************************************)
(* SpecBatch: the threads of optimize_all_images.  The families of         *)
(* image_tasks are submitted to a thread pool; the calling thread leaves   *)
(* the pool's with block when every future is over, and only then calls    *)
(* _optimize_game_logo.                                                    *)
(***************************************************************************)
image_tasks ==
    {"hero_images", "favicon", "og_images", "pwa_icons", "pwa_screenshots", "seo_attributes"}

\* a future is over when its family returned a count (processed or skipped)
\* or raised
Over == {"processed", "skipped", "failed"}

\* a game logo that is one more task of the batch
logo_in_batch(threads) == \A family \in image_tasks : threads[family] # "idle"

\* ThreadPoolExecutor.__exit__: every submitted future is over
BatchOver(threads) == \A family \in image_tasks : threads[family] \in Over

InitBatch ==
    /\ src = EmptyDict
    /\ out = EmptyDict
    /\ disk_cache = AbsentFile
    /\ cache_data = EmptyDict
    /\ file_categories = InitialCategories
    /\ pc = [thread \in image_tasks \cup {"game_logo", "caller"} |-> "idle"]
    /\ ret = NoCall
    /\ run = [force |-> FALSE]
    /\ hist = {}

\* optimize_all_images(force) submits every task of image_tasks
B_Submit(force) ==
    /\ pc["caller"] = "idle"
    /\ pc' = [thread \in DOMAIN pc |->
                 IF thread \in image_tasks THEN "queued"
                 ELSE IF thread = "caller" THEN "batch" ELSE "idle"]
    /\ run' = [force |-> force]
    /\ hist' = {}
    /\ UNCHANGED <<src, out, disk_cache, cache_data, file_categories, ret>>

\* a worker of the pool takes the task of a family
B_Start(family) ==
    /\ pc[family] = "queued"
    /\ pc' = [pc EXCEPT ![family] = "running"]
    /\ hist' = hist \cup {family}
    /\ UNCHANGED <<src, out, disk_cache, cache_data, file_categories, ret, run>>

\* the family returns or raises; the caller's as_completed loop adds its
\* count or prints its error
B_Finish(family, outcome) ==
    /\ pc[family] = "running"
    /\ pc' = [pc EXCEPT ![family] = outcome]
    /\ UNCHANGED <<src, out, disk_cache, cache_data, file_categories, ret, run, hist>>

\* the caller leaves _execute_parallel_image_tasks and calls
\* _optimize_game_logo
B_GameLogo ==
    /\ pc["caller"] = "batch"
    /\ BatchOver(pc)
    /\ pc' = [pc EXCEPT !["caller"] = "game_logo", !["game_logo"] = "running"]
    /\ hist' = hist \cup {"game_logo"}
    /\ UNCHANGED <<src, out, disk_cache, cache_data, file_categories, ret, run>>

\* _optimize_game_logo returns and optimize_all_images returns 1
B_Return(outcome) ==
    /\ pc["game_logo"] = "running"
    /\ pc' = [pc EXCEPT !["caller"] = "idle", !["game_logo"] = outcome]
    /\ UNCHANGED <<src, out, disk_cache, cache_data, file_categories, ret, run, hist>>

NextBatch ==
    \/ \E force \in BOOLEAN : B_Submit(force)
    \/ \E family \in image_tasks : B_Start(family)
    \/ \E family \in image_tasks : \E outcome \in Over : B_Finish(family, outcome)
    \/ B_GameLogo
    \/ \E outcome \in {"processed", "skipped"} : B_Return(outcome)

SpecBatch == InitBatch /\ [][NextBatch]_vars

\* C26: the game-logo family has started only if every family of the
\* parallel batch is over (processed, skipped or failed), and while it runs
\* no family of the batch runs.
C26_GameLogoAfterBatch ==
    "game_logo" \in hist =>
        /\ \A family \in image_tasks : pc[family] \in Over
        /\ pc["game_logo"] = "running" =>
               \A family \in image_tasks : pc[family] # "running"

\* the game logo runs after a batch with a processed, a skipped and a failed
\* family
C26_Witness ==
    /\ pc["game_logo"] = "running"
    /\ \A outcome \in Over : \E family \in image_tasks : pc[family] = outcome

\* the fingerprints the previous build saved
SavedFingerprints ==
    IF disk_cache.state = "valid" THEN DOMAIN Get(disk_cache.data, "files", EmptyDict) ELSE {}

\* C27: when a build without force has taken its change decisions, the
\* content category is reported changed if an item file fingerprinted by the
\* previous build no longer exists.
C27_DeletionDetected ==
    (pc = "error_pages" /\ ~run.force) =>
        \A p \in {GameA, GameB} :
            (p \in SavedFingerprints /\ p \notin DOMAIN src) => "content" \in hist.changed

(***************************************************************************)
(* SpecLinks: the page builder's writers and resolve_asset_links           *)
(* (core/page_builder.py).  An HTML text is the sequence of its asset      *)
(* references; a reference has an attribute (or url for a CSS url()), the  *)
(* quote that opens its value and a path.                                  *)
(***************************************************************************)
Ref(attr, quote, path) == [attr |-> attr, quote |-> quote, path |-> path]

\* str.lower on the directory names of the model
Lower(token) ==
    IF token = "IMG" THEN "img" ELSE IF token = "CSS" THEN "css"
    ELSE IF token = "JS" THEN "js" ELSE token

OrganizedDir(directory) == IF directory = "img" THEN "images" ELSE directory

\* one reference through the six patterns of resolve_asset_links, matched
\* without regard to case: (src|href)="img/, ="css/, ="js/ and
\* url("?img/, url("?css/, url("?js/
ResolveRef(ref) ==
    IF /\ Len(ref.path) >= 2
       /\ Lower(ref.path[1]) \in {"img", "css", "js"}
       /\ ref.path[2] = "/"
       /\ \/ ref.attr \in {"src", "href"} /\ ref.quote = "\""
          \/ ref.attr = "url" /\ ref.quote \in {"\"", ""}
    THEN Ref(ref.attr, "\"",
             <<"/", "assets", "/", OrganizedDir(Lower(ref.path[1]))>> \o DropFirst(ref.path, 1))
    ELSE ref

resolve_asset_links(html_content) ==
    [i \in DOMAIN html_content |-> ResolveRef(html_content[i])]

\* template.render: the references of the template, then those of the HTML
\* the context carries
Render(tree, template_name, custom_html_content) ==
    tree[template_name].content \o custom_html_content

OfflineTemplate == <<"templates", "/", "offline", ".html">>

PicPath == <<"img", "/", "pic", ".png">>

\* the texts a template or an item's content can hold
Documents ==
    { <<>>,
      <<Ref("src", "\"", PicPath)>>,
      <<Ref("href", "\"", <<"CSS", "/", "main", ".css">>)>>,
      <<Ref("src", "'", PicPath), Ref("url", "", PicPath)>>,
      <<Ref("src", "\"", <<"/", "assets", "/", "images", "/", "pic", ".png">>)>> }

InitLinks ==
    /\ src \in {[p \in {PageTemplate, IndexTemplate, ErrorTemplate, OfflineTemplate, GameA} |->
                    File(1, IF p = PageTemplate THEN page
                            ELSE IF p = GameA THEN item
                            ELSE IF p = IndexTemplate THEN <<>> ELSE other, TRUE)] :
                   <<page, item, other>> \in Documents \X Documents \X Documents}
    /\ out = EmptyDict
    /\ disk_cache = AbsentFile
    /\ cache_data = EmptyDict
    /\ file_categories = InitialCategories
    /\ pc = "idle"
    /\ ret = NoCall
    /\ run = [force |-> FALSE]
    /\ hist = {}

\* _generate_page: generate_page_direct for a static page
L_Page(page_key) ==
    /\ out' = Put(out, get_page_output_path(page_key, FALSE),
                  OutFile(1, resolve_asset_links(Render(src, PageTemplate, <<>>))))
    /\ hist' = hist \cup {get_page_output_path(page_key, FALSE)}
    /\ UNCHANGED <<src, disk_cache, cache_data, file_categories, pc, ret, run>>

\* _generate_game_pages: the item's content is rewritten, then
\* generate_game_page renders, rewrites and writes the page
L_GamePage ==
    /\ LET content_html == resolve_asset_links(src[GameA].content)
           html_content == Render(src, IndexTemplate, content_html)
       IN  out' = Put(out, get_page_output_path("a", TRUE),
                      OutFile(1, resolve_asset_links(html_content)))
    /\ hist' = hist \cup {get_page_output_path("a", TRUE)}
    /\ UNCHANGED <<src, disk_cache, cache_data, file_categories, pc, ret, run>>

\* generate_games_listing: games_list.html is not among the templates, the
\* listing is rendered from page.html and written
L_GamesListing ==
    /\ out' = Put(Del(out, LegacyGamesHtml), get_page_output_path("games", FALSE),
                  OutFile(1, Render(src, PageTemplate, <<>>)))
    /\ hist' = hist \cup {get_page_output_path("games", FALSE)}
    /\ UNCHANGED <<src, disk_cache, cache_data, file_categories, pc, ret, run>>

\* generate_error_pages: three calls of generate_page_direct
L_ErrorPages ==
    /\ LET error == OutFile(1, resolve_asset_links(Render(src, ErrorTemplate, <<>>)))
           offline == OutFile(1, resolve_asset_links(Render(src, OfflineTemplate, <<>>)))
       IN  out' = Put(Put(Put(out, Error404, error), OfflineHtml, offline),
                      OfflineIndex, offline)
    /\ hist' = hist \cup {Error404, OfflineHtml, OfflineIndex}
    /\ UNCHANGED <<src, disk_cache, cache_data, file_categories, pc, ret, run>>

NextLinks ==
    \/ \E page_key \in {"index", "about-us"} : L_Page(page_key)
    \/ L_GamePage
    \/ L_GamesListing
    \/ L_ErrorPages

SpecLinks == InitLinks /\ [][NextLinks]_vars

\* a reference of the form src="img/...", href="css/..." and the like
LegacyRef(ref) ==
    /\ ref.attr \in {"src", "href"}
    /\ ref.quote = "\""
    /\ Len(ref.path) >= 2
    /\ Lower(ref.path[1]) \in {"img", "css", "js"}
    /\ ref.path[2] = "/"

\* C28: no page the page builder has written holds a reference of the form
\* src/href="img/...", "css/..." or "js/...".
C28_EveryEmittedPageRewritten ==
    \A q \in hist : \A i \in DOMAIN out[q].content : ~LegacyRef(out[q].content[i])

(***************************************************************************)
(* SpecSynthetic: generate_game_rating without a custom rating, called     *)
(* twice on a slug.  The hash of the slug is a 32-bit value; the rating    *)
(* depends on it through h % 200 and h % 5001 only.  The hashes of the     *)
(* model have their low half in 0..MaxHashLow (every residue of 200, twice)*)
(* or at the top of its range, and their high half at both ends of its     *)
(* range and in between.                                                   *)
(***************************************************************************)
MaxHashLow == 399

Hashes ==
    {[hi |-> hi, lo |-> lo] : hi \in {0, 1, 32768, 65535},
                              lo \in (0..MaxHashLow) \cup {5000, 65535}}

InitSynthetic ==
    /\ src = EmptyDict
    /\ out = EmptyDict
    /\ disk_cache = AbsentFile
    /\ cache_data = EmptyDict
    /\ file_categories = InitialCategories
    /\ pc = "idle"
    /\ ret = NoCall
    /\ run \in {[h |-> h] : h \in Hashes}
    /\ hist = <<>>

\* generate_game_rating(game_slug), the slug hashing to run.h
Y_Call ==
    /\ Len(hist) < 2
    /\ ret' = [op |-> "generate_game_rating", result |-> SyntheticRating(run.h)]
    /\ hist' = Append(hist, SyntheticRating(run.h))
    /\ UNCHANGED <<src, out, disk_cache, cache_data, file_categories, pc, run>>

NextSynthetic == Y_Call

SpecSynthetic == InitSynthetic /\ [][NextSynthetic]_vars

\* C29: every call returns the same rating for a slug, with a ratingValue
\* between 3.0 and 4.9 (30 and 49 tenths) and a ratingCount between 250 and
\* 5250.
C29_SyntheticRatingBounded ==
    \A i \in DOMAIN hist :
        /\ hist[i] = hist[1]
        /\ hist[i].ratingValue.n \in 30..49
        /\ hist[i].ratingCount.n \in 250..5250

(***************************************************************************)
(* SpecCrawl: SiteCrawler.crawl_site on an output tree holding clean-URL   *)
(* pages, the root page, the error page and legacy flat .html pages.       *)
(***************************************************************************)
RECURSIVE Rstrip(_)
Rstrip(s) == IF s # <<>> /\ s[Len(s)] = "/" THEN Rstrip(DropLast(s, 1)) ELSE s

\* str.strip('/')
Strip(s) == Lstrip(Rstrip(s))

\* no file: _validate_page_links logs 'Cannot find file for URL' and returns
NotFound == <<>>

\* the file _validate_page_links reads for page_url
PageFile(outtree, page_url) ==
    LET clean == IF page_url = <<"/">> THEN Join(OutputDir, IndexHtml)
                 ELSE Join(Join(OutputDir, Strip(page_url)), IndexHtml)
        legacy == IF Strip(page_url) = <<>> THEN Join(OutputDir, <<".html">>)
                  ELSE Join(OutputDir, Strip(page_url) \o <<".html">>)
    IN  IF clean \in DOMAIN outtree THEN clean
        ELSE IF legacy \in DOMAIN outtree THEN legacy
        ELSE NotFound

CrawlPaths ==
    {Join(OutputDir, IndexHtml), get_page_output_path("games", FALSE),
     get_page_output_path("a", TRUE), Error404, OfflineIndex, LegacyGamesHtml,
     Join(OutputDir, <<"pages", "/", "old", ".html">>)}

InitCrawl ==
    /\ src = EmptyDict
    /\ out \in {[p \in present |-> OutFile(1, <<"page">>)] : present \in SUBSET CrawlPaths}
    /\ disk_cache = AbsentFile
    /\ cache_data = EmptyDict
    /\ file_categories = InitialCategories
    /\ pc = "idle"
    /\ ret = NoCall
    /\ run = [discovered_pages |-> {}, pending |-> {}]
    /\ hist = EmptyDict

\* crawl_site: _discover_html_files
Cr_Discover ==
    /\ pc = "idle"
    /\ run' = [discovered_pages |-> _discover_html_files(out),
               pending |-> _discover_html_files(out)]
    /\ hist' = EmptyDict
    /\ pc' = "validate"
    /\ UNCHANGED <<src, out, disk_cache, cache_data, file_categories, ret>>

\* _validate_links: _validate_page_links on one discovered page; hist keeps
\* the file whose links and assets were extracted
Cr_ValidatePage(page_url) ==
    /\ pc = "validate"
    /\ page_url \in run.pending
    /\ hist' = Put(hist, page_url, PageFile(out, page_url))
    /\ run' = [run EXCEPT !.pending = @ \ {page_url}]
    /\ UNCHANGED <<src, out, disk_cache, cache_data, file_categories, pc, ret>>

\* crawl_site returns its results
Cr_Return ==
    /\ pc = "validate"
    /\ run.pending = {}
    /\ pc' = "returned"
    /\ UNCHANGED <<src, out, disk_cache, cache_data, file_categories, ret, run, hist>>

NextCrawl ==
    \/ Cr_Discover
    \/ \E page_url \in Range(UrlOrder) : Cr_ValidatePage(page_url)
    \/ Cr_Return

SpecCrawl == InitCrawl /\ [][NextCrawl]_vars

\* C30: for every discovered page that _validate_page_links has handled, the
\* file it read exists and is the file the URL was discovered from.
C30_EveryDiscoveredPageValidated ==
    \A page_url \in DOMAIN hist :
        /\ hist[page_url] # NotFound
        /\ _file_to_url(RelPath(hist[page_url], OutputDir)) = page_url

=============================================================================
